---- MODULE Spec2Model ----
(***************************************************************************)
(* Model of the ABeamer story (class _Story of client/lib/js/sprintf.ts):  *)
(* the scene list with its lazily recomputed frame count, the render       *)
(* request queue, the render-stage loop (_renderLoop) with its wait queue  *)
(* (_WaitMan), the frame timer and the capture-agent channel.              *)
(*                                                                         *)
(* JavaScript is single threaded: a handler runs to completion.  The       *)
(* render loop however calls user code (hooks, flyovers, scene tasks, wait *)
(* functions), and that user code may call back into the story.  The model *)
(* therefore keeps the stack of live _renderLoop activations; every        *)
(* activation executes one stage per step, and the calls of the public API *)
(* are enabled when no activation is live or when the live one is inside a *)
(* user callback.                                                          *)
(***************************************************************************)
EXTENDS Integers, Sequences, FiniteSets, TLC

\* ------------------------------------------------------------------------
\*                               Bounds
\* ------------------------------------------------------------------------

\* scenes a story may hold at a time
MaxScenes == 2
\* frames a scene's animation pipeline can grow to
MaxSceneFrames == 1
\* render() calls of one behaviour
MaxRenderCalls == 2
MaxQueueCalls == 3
\* largest renderPos / renderCount a frame-range request names
MaxReqPos == 1
MaxReqCount == 1
\* addWaitFunc calls of one behaviour
MaxWaitFuncs == 1
MaxWaitEntries == 2
MaxDrainEntries == 3
\* calls into the story made by user code that the render loop called
MaxReentrant == 1
\* calls of the scene-list API (addScene, addAnimations, removeScene, ...)
MaxEdits == 3
\* flyovers registered
MaxFlyovers == 2
\* the largest value an 'add-vars' task assigns (0 is falsy, the others
\* truthy), and the variables one task names
MaxVarValue == 1
MaxVarsLen == 2
\* scenes in the list of a story that is edited and sought only
MaxListScenes == 3
\* series of a chart, points of a series, and the largest point (in steps)
MaxSeries == 2
MaxSeriesLen == 2
MaxPoint == 2
\* ids of the standard transitions: 0..MaxStdTransition
MaxStdTransition == 0
\* durations of a scene transition, in frames
MaxDuration == 1
\* tokens of an expression, after the sigil
MaxExprLen == 3
\* turns of the render loop an uninterrupted play is followed for
MaxPlaySteps == 40

\* ------------------------------------------------------------------------
\*                               Values
\* ------------------------------------------------------------------------

\* `undefined` for an optional field of RenderFrameOptions
Undef == -1000
\* `undefined` for _curScene; scene objects are numbered from 1
NoScene == 0
\* `undefined` for _renderTimer; window.setTimeout returns ids >= 1
NoTimer == 0

\* one object more than the list can hold: a scene may leave the list and
\* still be referenced
SceneIds == 1..(MaxScenes + 1)

\* RenderFrameOptions: every field optional
FrameOpts ==
  [ renderPos   : {Undef} \cup (0..MaxReqPos),
    renderCount : {Undef} \cup ((-1)..MaxReqCount),
    startScene  : {Undef} \cup (0..(MaxScenes - 1)),
    endScene    : {Undef} \cup (0..(MaxScenes - 1)) ]

\* The names of args.vars the tasks use; a dotted name is `name.x`.
VarNames == {"a", "b"}

\* A value of args.vars: undefined, a number (val), or an object whose
\* property x is a number or undefined.
NoVar == [obj |-> FALSE, val |-> Undef, x |-> Undef]
NumVar(v) == [obj |-> FALSE, val |-> v, x |-> Undef]
EmptyObj == [obj |-> TRUE, val |-> Undef, x |-> Undef]

\* An entry of params.vars, and the maps a task can carry: Object.keys
\* lists the entries in insertion order, each key once.
VarEntries == [name : VarNames, dotted : BOOLEAN, value : 0..MaxVarValue]

VarsMaps ==
  {m \in UNION {[1..n -> VarEntries] : n \in 1..MaxVarsLen} :
     \A i, j \in 1..Len(m) :
       (m[i].name = m[j].name /\ m[i].dotted = m[j].dotted) => i = j}

AddVarsParams == [overwrite : BOOLEAN, vars : VarsMaps]

\* A transition handler: a number (val: the id), a string (val: the id of
\* the standard transition it names, UserName for another registered name),
\* a function, or undefined.
UserName == -2
Handlers ==
  [kind : {"number"}, val : 0..(MaxStdTransition + 1)]
    \cup [kind : {"string"}, val : {UserName} \cup (0..MaxStdTransition)]
    \cup [kind : {"function", "undefined"}, val : {Undef}]

UndefinedHandler == [kind |-> "undefined", val |-> Undef]

\* SceneTransitionTaskParams: handler and duration, both optional
TransitionParams == [handler : Handlers, duration : {Undef} \cup (1..MaxDuration)]

NoTaskParams == [handler |-> UndefinedHandler, duration |-> Undef]

\* Numbers of a chart are counted in halves of the step between two data
\* points, so that Number.MIN_VALUE, the smallest positive number, lies
\* between 0 and the first step, and Number.MAX_VALUE above every point.
Step == 2
MIN_VALUE == 1
MAX_VALUE == Step * MaxPoint + 1

\* SeriesData = number[], and the data of a chart task: one or more series
SeriesData ==
  UNION {[1..n -> {Step * p : p \in (-MaxPoint)..MaxPoint}] : n \in 0..MaxSeriesLen}
ChartData == UNION {[1..n -> SeriesData] : n \in 1..MaxSeries}

\* a chart before _initData (avg2 is twice avg: the model has no fractions)
NoChart == [min |-> 0, max |-> 0, avg2 |-> 0, seriesLen |-> 0, data |-> << >>]

\* the log of a channel nobody reads
NotLogged == << "-" >>

\* a scene without a transition
NoTransition == [handler |-> UndefinedHandler, duration |-> Undef]

\* the stages a task is called at
TaskStages == {"TS_INIT", "TS_ANIME_LOOP", "TS_TELEPORT"}

\* ------------------------------------------------------------------------
\*                               State
\* ------------------------------------------------------------------------

VARIABLES
  \* configuration, fixed by the constructor
  hasServer,          \* a capture agent is attached
  isTeleporting,      \* the story is in teleporting mode
  \* _Story
  scenes,             \* _scenes: sequence of scene objects
  curScene,           \* _curScene
  frameCount,         \* _frameCount
  frameCountChanged,  \* _frameCountChanged, the dirty flag
  renderFramePos,     \* _renderFramePos
  renderDir,          \* _renderDir
  renderFrameEnd,     \* _renderFrameEnd
  renderFrameCount,   \* _renderFrameCount
  renderStage,        \* _renderStage, the stage cursor
  isRendering,        \* _isRendering
  renderTimer,        \* _renderTimer
  queueRenders,       \* _queueRenders: pending render requests
  waitFuncs,          \* _waitMan.funcs
  waitPos,            \* _waitMan.pos
  wkFlyovers,         \* _wkFlyovers: the registered flyovers
  argsVars,           \* _args.vars: the variables the tasks set, by name
  sceneExpr,          \* the computed value of the property the scenes animate
  teleportOut,        \* the snapshot of the last MSG_TELEPORT sent
  \* _Scene, per scene object
  sceneFrames,        \* frameCount of the scene's own pipeline
  storyFrameStart,    \* storyFrameStart as cached by _setStoryParams
  storySceneIndex,    \* storySceneIndex as cached by _setStoryParams
  \* environment
  timers,             \* ids of the pending window.setTimeout callbacks
  doneCbs,            \* wait entries invoked whose onDone was not yet called
  readyOut,           \* READY messages the agent has not yet answered
  renderOut,          \* RENDER messages the agent has not yet answered
  stack,              \* live _renderLoop activations, innermost last
  \* history
  callNr,             \* render() calls so far; names the requests
  waitNr,             \* addWaitFunc calls so far; names the wait entries
  editNr,             \* scene-list API calls so far
  nestNr,             \* calls made from inside the render loop so far
  lastCall,           \* the last API call: what it was and how it ended
  enqLog,             \* ids of the requests queued, in order
  startLog,           \* ids of the requests taken off the queue, in order
  rendered,           \* positions scene-rendered (stage 5) since the last
                      \* accepted render started
  loopDied,           \* an exception left _renderLoop
  hookLog,            \* << hook, position >> of the frame hooks and
                      \* << "flyover", position, flyover >> of the ANIME_LOOP
                      \* calls since the last accepted render started
  waitLog,            \* wait entries invoked since the last accepted render
                      \* started, in order
  flyInits,           \* the INIT calls of flyovers, in order: the flyover
                      \* and whether a render was in flight
  propLog,            \* [pos, value] of the property resolved for each frame
                      \* scene-rendered since the last accepted render started
  renderAcked,        \* a RENDER_DONE was received since stage 6 last
                      \* suspended the loop for the capture agent
  startWaits,         \* one entry per accepted start of a render, in order:
                      \* the wait entries the start found in the queue
  drainRegs,          \* the wait entries registered by the continuation of
                      \* an entry the render in flight invoked
  taskParams,         \* params of the scene-transition task, as its last stage left them
  taskResult,         \* the TaskResult the task returned last
  sceneTransition,    \* args.scene.transition
  sent,               \* messages sent to the agent (_sendCmd), in order
  toExitOnRenderFinished, \* public toExitOnRenderFinished
  chart               \* min, max, avg, seriesLen and data of the chart of a chart task

vars == << hasServer, isTeleporting, scenes, curScene, frameCount,
           frameCountChanged, renderFramePos, renderDir, renderFrameEnd,
           renderFrameCount, renderStage, isRendering, renderTimer,
           queueRenders, waitFuncs, waitPos, sceneFrames, storyFrameStart,
           storySceneIndex, timers, doneCbs, readyOut, renderOut, stack,
           callNr, waitNr, editNr, nestNr, lastCall, enqLog, startLog,
           rendered, loopDied, wkFlyovers, hookLog, waitLog, flyInits,
           argsVars, sceneExpr, propLog, teleportOut, renderAcked,
           startWaits, drainRegs,
           taskParams,
           taskResult,
           sceneTransition,
           sent,
           toExitOnRenderFinished,
           chart >>

\* The state as one value: the methods below are functions from state to
\* state, so that a method can call another (finishRender calls
\* _internalRender, which may call finishRender).  `thrown` is the exception
\* in flight ("" when none) and `ret` the value the last method returned.
St ==
  [ hasServer |-> hasServer, isTeleporting |-> isTeleporting,
    scenes |-> scenes, curScene |-> curScene, frameCount |-> frameCount,
    frameCountChanged |-> frameCountChanged,
    renderFramePos |-> renderFramePos, renderDir |-> renderDir,
    renderFrameEnd |-> renderFrameEnd, renderFrameCount |-> renderFrameCount,
    renderStage |-> renderStage, isRendering |-> isRendering,
    renderTimer |-> renderTimer, queueRenders |-> queueRenders,
    waitFuncs |-> waitFuncs, waitPos |-> waitPos,
    sceneFrames |-> sceneFrames, storyFrameStart |-> storyFrameStart,
    storySceneIndex |-> storySceneIndex,
    timers |-> timers, doneCbs |-> doneCbs, readyOut |-> readyOut,
    renderOut |-> renderOut, stack |-> stack,
    startLog |-> startLog, rendered |-> rendered, loopDied |-> loopDied,
    wkFlyovers |-> wkFlyovers, hookLog |-> hookLog, waitLog |-> waitLog,
    flyInits |-> flyInits, argsVars |-> argsVars,
    sceneExpr |-> sceneExpr, propLog |-> propLog,
    teleportOut |-> teleportOut, renderAcked |-> renderAcked,
    startWaits |-> startWaits, drainRegs |-> drainRegs,
    taskParams |-> taskParams,
    taskResult |-> taskResult,
    sceneTransition |-> sceneTransition,
    sent |-> sent,
    toExitOnRenderFinished |-> toExitOnRenderFinished,
    chart |-> chart,
    thrown |-> "", ret |-> FALSE ]

\* The state after a handler: every field of t is stored.
Commit(t) ==
  /\ hasServer' = t.hasServer
  /\ isTeleporting' = t.isTeleporting
  /\ scenes' = t.scenes
  /\ curScene' = t.curScene
  /\ frameCount' = t.frameCount
  /\ frameCountChanged' = t.frameCountChanged
  /\ renderFramePos' = t.renderFramePos
  /\ renderDir' = t.renderDir
  /\ renderFrameEnd' = t.renderFrameEnd
  /\ renderFrameCount' = t.renderFrameCount
  /\ renderStage' = t.renderStage
  /\ isRendering' = t.isRendering
  /\ renderTimer' = t.renderTimer
  /\ queueRenders' = t.queueRenders
  /\ waitFuncs' = t.waitFuncs
  /\ waitPos' = t.waitPos
  /\ sceneFrames' = t.sceneFrames
  /\ storyFrameStart' = t.storyFrameStart
  /\ storySceneIndex' = t.storySceneIndex
  /\ timers' = t.timers
  /\ doneCbs' = t.doneCbs
  /\ readyOut' = t.readyOut
  /\ renderOut' = t.renderOut
  /\ stack' = t.stack
  /\ startLog' = t.startLog
  /\ rendered' = t.rendered
  /\ loopDied' = t.loopDied
  /\ wkFlyovers' = t.wkFlyovers
  /\ hookLog' = t.hookLog
  /\ waitLog' = t.waitLog
  /\ flyInits' = t.flyInits
  /\ argsVars' = t.argsVars
  /\ sceneExpr' = t.sceneExpr
  /\ propLog' = t.propLog
  /\ teleportOut' = t.teleportOut
  /\ renderAcked' = t.renderAcked
  /\ startWaits' = t.startWaits
  /\ drainRegs' = t.drainRegs
  /\ taskParams' = t.taskParams
  /\ taskResult' = t.taskResult
  /\ sceneTransition' = t.sceneTransition
  /\ sent' = t.sent
  /\ toExitOnRenderFinished' = t.toExitOnRenderFinished
  /\ chart' = t.chart

\* F applied to the value v: the `const x = ...` of a method
With(v, F(_)) == F(v)

Throw(s, e) == [s EXCEPT !.thrown = e]
Return(s, v) == [s EXCEPT !.ret = v]

\* ------------------------------------------------------------------------
\*                               Scene (frame-range resolution)
\* ------------------------------------------------------------------------

\* A scene object as `new _Scene` leaves it: no animation, no story params.
NewSceneIndex == -1

\* scene._internalContainsFrame(framePos): the scene's cached frame range
_internalContainsFrame(s, sc, framePos) ==
  /\ framePos >= s.storyFrameStart[sc]
  /\ framePos < s.storyFrameStart[sc] + s.sceneFrames[sc]

\* Array.prototype.splice(start, 1) on a sequence (start is zero based; a
\* negative start counts from the end, a start past the end removes nothing)
Splice1(seq, start) ==
  LET n == Len(seq)
      k == IF start < 0 THEN (IF n + start < 0 THEN 0 ELSE n + start) ELSE start
  IN IF k >= n THEN seq
     ELSE SubSeq(seq, 1, k) \o SubSeq(seq, k + 2, n)

InSeq(seq, x) == \E i \in 1..Len(seq) : seq[i] = x

\* Objects nothing refers to any more are as good as new.
Collect(s) ==
  LET live(sc) == InSeq(s.scenes, sc) \/ s.curScene = sc
  IN [s EXCEPT
        !.sceneFrames = [sc \in SceneIds |-> IF live(sc) THEN @[sc] ELSE 0],
        !.storyFrameStart = [sc \in SceneIds |-> IF live(sc) THEN @[sc] ELSE 0],
        !.storySceneIndex =
            [sc \in SceneIds |-> IF live(sc) THEN @[sc] ELSE NewSceneIndex]]

\* ------------------------------------------------------------------------
\*                               Story: frame methods
\* ------------------------------------------------------------------------

_setFrameCountChanged(s) == [s EXCEPT !.frameCountChanged = TRUE]

RECURSIVE SumFrames(_, _, _)
\* frames of the first n scenes of the list
SumFrames(seq, frames, n) ==
  IF n = 0 THEN 0 ELSE SumFrames(seq, frames, n - 1) + frames[seq[n]]

\* story params that are set once: a scene that has them keeps them
_setStoryParams_once(s) ==
  LET at(sc) == CHOOSE i \in 1..Len(s.scenes) : s.scenes[i] = sc
      new(sc) == InSeq(s.scenes, sc) /\ s.storySceneIndex[sc] = NewSceneIndex
  IN [s EXCEPT
        !.storyFrameStart =
            [sc \in SceneIds |-> IF new(sc)
                                 THEN SumFrames(s.scenes, s.sceneFrames, at(sc) - 1)
                                 ELSE @[sc]],
        !.storySceneIndex =
            [sc \in SceneIds |-> IF new(sc) THEN at(sc) - 1 ELSE @[sc]]]

\* scene._setStoryParams(frameCount, index) for every scene of the list
_setStoryParams(s) ==
  LET at(sc) == CHOOSE i \in 1..Len(s.scenes) : s.scenes[i] = sc
  IN [s EXCEPT
        !.storyFrameStart =
            [sc \in SceneIds |-> IF InSeq(s.scenes, sc)
                                 THEN SumFrames(s.scenes, s.sceneFrames, at(sc) - 1)
                                 ELSE @[sc]],
        !.storySceneIndex =
            [sc \in SceneIds |-> IF InSeq(s.scenes, sc) THEN at(sc) - 1 ELSE @[sc]]]

\* _calcFrameCount that keeps the frames of the last scene only
_calcFrameCount_last(s) ==
  IF ~s.frameCountChanged THEN s
  ELSE [_setStoryParams(s) EXCEPT
          !.frameCountChanged = FALSE,
          !.frameCount = IF Len(s.scenes) = 0 THEN 0
                         ELSE s.sceneFrames[s.scenes[Len(s.scenes)]]]

_calcFrameCount(s) ==
  IF ~s.frameCountChanged THEN s
  ELSE [_setStoryParams(s) EXCEPT
          !.frameCountChanged = FALSE,
          !.frameCount = SumFrames(s.scenes, s.sceneFrames, Len(s.scenes))]

\* get frameCount(): recomputes, then returns _frameCount
get_frameCount(s) ==
  With(_calcFrameCount(s), LAMBDA s1 : Return(s1, s1.frameCount))

\* a guard that lets every call through
_exceptIfRendering_off(s) == s

_exceptIfRendering(s) ==
  IF s.isRendering THEN Throw(s, "AlreadyRendering") ELSE s

_internalGotoScene(s, sc) == [s EXCEPT !.curScene = sc]

\* _scenes.find(scene => scene._internalContainsFrame(framePos))
FindScene(s, framePos) ==
  LET hits == {i \in 1..Len(s.scenes) :
                 _internalContainsFrame(s, s.scenes[i], framePos)}
  IN IF hits = {} THEN NoScene
     ELSE s.scenes[CHOOSE i \in hits : \A j \in hits : i <= j]

\* Dereferencing the undefined result of find() is a TypeError.
_internalGotoFrame(s, framePos) ==
  IF s.curScene = NoScene \/ ~_internalContainsFrame(s, s.curScene, framePos)
  THEN With(FindScene(s, framePos), LAMBDA found :
         IF found = NoScene
         THEN Throw(_internalGotoScene(s, found), "TypeError")
         ELSE _internalGotoScene(s, found))
  ELSE s

\* The position _internalGotoFrame hands to the current scene:
\* _curScene._internalGotoFrame(framePos - _curScene.storyFrameStart)
LocalFramePos(s, framePos) == framePos - s.storyFrameStart[s.curScene]

\* gotoFrame that counts the position from the start of the current scene
gotoFrame_relative(s, framePos) ==
  With(_exceptIfRendering(s), LAMBDA s1 :
    IF s1.thrown # "" THEN s1
    ELSE With(_calcFrameCount(s1), LAMBDA s2 :
           IF framePos < 0 \/ framePos >= s2.frameCount
           THEN Throw(s2, "OutOfScope")
           ELSE _internalGotoFrame(s2,
                  IF s2.curScene = NoScene THEN framePos
                  ELSE framePos + s2.storyFrameStart[s2.curScene])))

\* gotoFrame that seeks the frame before it tests the position
gotoFrame_seekFirst(s, framePos) ==
  With(_exceptIfRendering(s), LAMBDA s1 :
    IF s1.thrown # "" THEN s1
    ELSE With(_internalGotoFrame(_calcFrameCount(s1), framePos), LAMBDA s2 :
           IF framePos < 0 \/ framePos >= s2.frameCount
           THEN Throw(s2, "OutOfScope")
           ELSE s2))

gotoFrame(s, framePos) ==
  With(_exceptIfRendering(s), LAMBDA s1 :
    IF s1.thrown # "" THEN s1
    ELSE With(_calcFrameCount(s1), LAMBDA s2 :
           IF framePos < 0 \/ framePos >= s2.frameCount
           THEN Throw(s2, "OutOfScope")
           ELSE _internalGotoFrame(s2, framePos)))

rewind(s) == gotoFrame(s, 0)

gotoScene(s, sc) ==
  IF sc = s.curScene THEN s
  ELSE With(_exceptIfRendering(s), LAMBDA s1 :
         IF s1.thrown # "" THEN s1
         ELSE _internalGotoScene(_calcFrameCount(s1), sc))

\* ------------------------------------------------------------------------
\*                               Story: scene list
\* ------------------------------------------------------------------------

\* the object `new _Scene` creates
FreshScene(s) ==
  CHOOSE sc \in SceneIds :
    /\ ~InSeq(s.scenes, sc) /\ s.curScene # sc
    /\ \A o \in SceneIds : (~InSeq(s.scenes, o) /\ s.curScene # o) => sc <= o

addScene(s) ==
  _setFrameCountChanged([s EXCEPT !.scenes = Append(@, FreshScene(s))])

removeScene(s, sc) ==
  With(_exceptIfRendering(s), LAMBDA s1 :
    IF s1.thrown # "" THEN s1
    ELSE [s1 EXCEPT !.curScene = IF @ = sc THEN NoScene ELSE @,
                    !.scenes = Splice1(@, s1.storySceneIndex[sc])])

clear(s) ==
  With(_exceptIfRendering(s), LAMBDA s1 :
    IF s1.thrown # "" THEN s1
    ELSE With(rewind(s1), LAMBDA s2 :
           IF s2.thrown # "" THEN s2
           ELSE [_internalGotoScene(s2, NoScene) EXCEPT
                   !.scenes = << >>, !.renderFramePos = 0, !.frameCount = 0]))

\* scene.addAnimations: the scene's pipeline grows to n frames
addAnimations(s, sc, n) ==
  With(_exceptIfRendering(s), LAMBDA s1 :
    IF s1.thrown # "" THEN s1
    ELSE _setFrameCountChanged([s1 EXCEPT !.sceneFrames[sc] = n]))

\* ------------------------------------------------------------------------
\*                               Story: flyovers
\* ------------------------------------------------------------------------

\* The else branch of addFlyover: the flyover's INIT stage is called, then
\* the flyover joins _wkFlyovers.
InitFlyover(s, fly) ==
  [s EXCEPT !.flyInits = Append(@, [fly |-> fly, rendering |-> s.isRendering]),
            !.wkFlyovers = Append(@, fly)]

\* The INIT stage of the 'add-flyover' task: story.addFlyover called while
\* args.stage is AS_ADD_ANIMATION, which takes the else branch.
_addFlyover(s, fly) == InitFlyover(s, fly)

\* A teleporting story wraps the flyover in an 'add-flyover' task of the
\* first scene; adding is true when the caller is itself a task that
\* addAnimations runs.
addFlyover(s, fly, adding) ==
  IF s.isTeleporting /\ ~adding /\ Len(s.scenes) > 0
  THEN With(addAnimations(s, s.scenes[1], s.sceneFrames[s.scenes[1]]),
            LAMBDA s1 : IF s1.thrown # "" THEN s1 ELSE _addFlyover(s1, fly))
  ELSE InitFlyover(s, fly)

\* ------------------------------------------------------------------------
\*                               Wrapper tasks: scene-transition
\* ------------------------------------------------------------------------

\* StdTransitions[handler]: the reverse mapping of the enum gives the name
\* of a standard transition, and undefined for any other number.
StdTransitions(id) ==
  IF id \in 0..MaxStdTransition THEN [kind |-> "string", val |-> id]
  ELSE UndefinedHandler

\* a TELEPORT stage that leaves the handler as it is
_SceneTransitionTask_keep(s, params, stage) ==
  CASE stage = "TS_TELEPORT" ->
         [s EXCEPT !.taskParams = params, !.taskResult = "TR_EXIT"]
    [] stage = "TS_INIT" ->
         [s EXCEPT !.taskParams = params,
                   !.sceneTransition = [handler |-> params.handler,
                                        duration |-> params.duration],
                   !.taskResult = "TR_EXIT"]
    [] OTHER -> [s EXCEPT !.taskParams = params, !.taskResult = "undefined"]

\* _SceneTransitionTask(anime, wkTask, params, stage, args); the params
\* object is left in taskParams, the value returned in taskResult
_SceneTransitionTask(s, params, stage) ==
  CASE stage = "TS_TELEPORT" ->
         IF params.handler.kind = "number"
         THEN [s EXCEPT !.taskParams = [params EXCEPT !.handler =
                                          StdTransitions(params.handler.val)],
                        !.taskResult = "TR_EXIT"]
         ELSE IF params.handler.kind = "function"
         THEN Throw([s EXCEPT !.taskParams = params], "NoCode")
         ELSE [s EXCEPT !.taskParams = params, !.taskResult = "TR_EXIT"]
    [] stage = "TS_INIT" ->
         [s EXCEPT !.taskParams = params,
                   !.sceneTransition = [handler |-> params.handler,
                                        duration |-> params.duration],
                   !.taskResult = "TR_EXIT"]
    \* no case of the switch: the function returns undefined
    [] OTHER -> [s EXCEPT !.taskParams = params, !.taskResult = "undefined"]

\* ------------------------------------------------------------------------
\*                               Chart task
\* ------------------------------------------------------------------------

\* Math.max and Math.min over a start value and a list of points
RECURSIVE MathMax(_, _)
MathMax(start, series) ==
  IF series = << >> THEN start
  ELSE MathMax(IF series[1] > start THEN series[1] ELSE start, Tail(series))

RECURSIVE MathMin(_, _)
MathMin(start, series) ==
  IF series = << >> THEN start
  ELSE MathMin(IF series[1] < start THEN series[1] ELSE start, Tail(series))

\* the points of all series, in the order forEach visits them
RECURSIVE AllPoints(_)
AllPoints(data) ==
  IF data = << >> THEN << >> ELSE data[1] \o AllPoints(Tail(data))

\* _WkChart._initData(data); data has one series at least (_chartTask)
_initData(s, data) ==
  IF \E i \in 1..Len(data) : Len(data[i]) # Len(data[1])
  THEN Throw(s, "SeriesLength")
  ELSE With(MathMax(-MIN_VALUE, AllPoints(data)), LAMBDA max :
       With(MathMin(MAX_VALUE, AllPoints(data)), LAMBDA min :
         [s EXCEPT !.chart = [min |-> min, max |-> max, avg2 |-> max - min,
                              seriesLen |-> Len(data[1]), data |-> data]]))

\* ------------------------------------------------------------------------
\*                               Wrapper tasks: add-vars
\* ------------------------------------------------------------------------

\* argsPointer[objPartName] || {}: undefined and the falsy number give a new
\* object, any other value is kept.
OrEmptyObj(cur) ==
  IF ~cur.obj /\ cur.val \in {Undef, 0} THEN EmptyObj ELSE cur

\* The body of the forEach for one entry of params.vars.  A plain name is
\* assigned in args.vars; a dotted name first makes sure of its object, then
\* assigns the property.  Creating a property on a number is a TypeError in
\* strict mode.
SetVar(s, entry, overwrite) ==
  IF ~entry.dotted
  THEN IF overwrite \/ s.argsVars[entry.name] = NoVar
       THEN [s EXCEPT !.argsVars[entry.name] = NumVar(entry.value)]
       ELSE s
  ELSE With(OrEmptyObj(s.argsVars[entry.name]), LAMBDA argsPointer :
         IF ~argsPointer.obj THEN Throw(s, "TypeError")
         ELSE IF overwrite \/ argsPointer.x = Undef
         THEN [s EXCEPT !.argsVars[entry.name] =
                          [argsPointer EXCEPT !.x = entry.value]]
         ELSE [s EXCEPT !.argsVars[entry.name] = argsPointer])

RECURSIVE SetVars(_, _, _, _)
\* Object.keys(vars).forEach from entry i on; an exception ends it.
SetVars(s, varsMap, overwrite, i) ==
  IF i > Len(varsMap) \/ s.thrown # "" THEN s
  ELSE SetVars(SetVar(s, varsMap[i], overwrite), varsMap, overwrite, i + 1)

\* The INIT stage of the 'add-vars' task.
_addVarsTask(s, params) == SetVars(s, params.vars, params.overwrite, 1)

\* ------------------------------------------------------------------------
\*                               Story: render
\* ------------------------------------------------------------------------

\* parseTimeHandler(value, args, defaultValue, ...): a number of frames is
\* taken as it is (defaultUnit is TimeUnit.f), undefined gives the default
parseTimeHandler(value, defaultValue) ==
  IF value = Undef THEN defaultValue ELSE value

\* _getSceneByHandler for a scene given by its zero-based index (undefined:
\* no scene is asked for); the scene is returned in `ret`
_getSceneByHandler(s, sceneIdx) ==
  IF sceneIdx = Undef THEN Return(s, NoScene)
  ELSE IF sceneIdx < 0 \/ sceneIdx >= Len(s.scenes)
  THEN Throw(s, "OutOfScope")
  ELSE Return(s, s.scenes[sceneIdx + 1])

\* const renderFrameDir = renderFrameCount > 0 ? 1 : -1
RenderFrameDir(renderFrameCount0) == IF renderFrameCount0 > 0 THEN 1 ELSE -1

\* const renderFrameEnd = ...
RenderFrameEndOf(renderFramePos0, renderFrameCount0) ==
  IF renderFrameCount0 > 0
  THEN renderFramePos0 + renderFrameCount0 - 1
  ELSE renderFramePos0 + renderFrameCount0

Abs(n) == IF n < 0 THEN -n ELSE n

\* a window check that lets the reverse direction through
CheckRenderWindow_reverse(s, renderFramePos0, renderFrameCount0, renderFrameDir, renderFrameEnd0) ==
  IF renderFramePos0 < 0 \/ renderFramePos0 >= s.frameCount
  THEN Throw(s, "RenderPosOutOfScope")
  ELSE IF renderFrameEnd0 < -1 \/ renderFrameEnd0 > s.frameCount
  THEN Throw(s, "RenderCountOutOfScope")
  ELSE Return([s EXCEPT !.renderFramePos = renderFramePos0,
                        !.renderDir = renderFrameDir,
                        !.renderFrameEnd = renderFrameEnd0,
                        !.renderFrameCount = Abs(renderFrameCount0)], TRUE)

\* The checks of the direction and of the window, and the store of the
\* render properties.
CheckRenderWindow(s, renderFramePos0, renderFrameCount0, renderFrameDir, renderFrameEnd0) ==
  IF renderFrameDir = -1 THEN Throw(s, "ReverseNotSupported")
  ELSE IF renderFramePos0 < 0 \/ renderFramePos0 >= s.frameCount
  THEN Throw(s, "RenderPosOutOfScope")
  ELSE IF renderFrameEnd0 < -1 \/ renderFrameEnd0 > s.frameCount
  THEN Throw(s, "RenderCountOutOfScope")
  ELSE Return([s EXCEPT !.renderFramePos = renderFramePos0,
                        !.renderDir = renderFrameDir,
                        !.renderFrameEnd = renderFrameEnd0,
                        !.renderFrameCount = Abs(renderFrameCount0)], TRUE)

\* The end of _calcRenderFrameOptions, from the computed start and count.
SetRenderFrameOptions(s, renderFramePos0, renderFrameCount0) ==
  \* needs at least one frame to render
  IF renderFrameCount0 = 0 THEN Return(s, FALSE)
  ELSE CheckRenderWindow(s, renderFramePos0, renderFrameCount0,
                         RenderFrameDir(renderFrameCount0),
                         RenderFrameEndOf(renderFramePos0, renderFrameCount0))

\* Computes the render properties from the user frame params; `ret` is the
\* boolean it returns.
_calcRenderFrameOptions(s, frameOpts) ==
  With(_getSceneByHandler(_calcFrameCount(s), frameOpts.startScene), LAMBDA s1 :
    IF s1.thrown # "" THEN s1
    ELSE
    With(IF frameOpts.startScene # Undef THEN s1.storyFrameStart[s1.ret] ELSE 0,
         LAMBDA startOffset :
    With(_getSceneByHandler(s1, frameOpts.endScene), LAMBDA s2 :
      IF s2.thrown # "" THEN s2
      ELSE
      With(parseTimeHandler(frameOpts.renderPos, 0) + startOffset,
           LAMBDA renderFramePos0 :
        SetRenderFrameOptions(s2, renderFramePos0,
          IF frameOpts.renderCount # Undef
          THEN parseTimeHandler(frameOpts.renderCount, s2.frameCount)
          ELSE IF frameOpts.endScene # Undef
          THEN s2.storyFrameStart[s2.ret] + s2.sceneFrames[s2.ret]
                 - renderFramePos0
          ELSE parseTimeHandler(frameOpts.renderCount, s2.frameCount)
                 - startOffset)))))

\* A call of _renderLoop(): a new activation, which starts from the stage
\* cursor (`let stage = this._renderStage`).
CallRenderLoop(s) ==
  [s EXCEPT !.stack = Append(@, [stage |-> s.renderStage, pc |-> "run",
                                 stale |-> FALSE])]

\* The render in flight ends: the activations that are live belong to it
\* (history: `stale` marks them).
EndRender(s) ==
  [s EXCEPT !.isRendering = FALSE,
            !.stack = [i \in 1..Len(s.stack) |->
                         [s.stack[i] EXCEPT !.stale = TRUE]]]

\* _renderLoop() called by a callback; the callback of a wait entry of an
\* earlier render is stale.
CallRenderLoopBy(s, stale) ==
  [CallRenderLoop(s) EXCEPT !.stack[Len(s.stack) + 1].stale = stale]

\* window.setTimeout returns an id no pending or remembered timer has
NewTimer(s) ==
  CHOOSE id \in 1..(Cardinality(s.timers) + 2) :
    /\ id \notin s.timers /\ id # s.renderTimer
    /\ \A o \in 1..(Cardinality(s.timers) + 2) :
         (o \notin s.timers /\ o # s.renderTimer) => id <= o

\* window.clearTimeout(this._renderTimer) of finishRender
ClearRenderTimer(s) ==
  IF s.renderTimer # NoTimer
  THEN [s EXCEPT !.timers = @ \ {s.renderTimer}, !.renderTimer = NoTimer]
  ELSE s

\* _sendCmd(cmd): a line on the channel of the capture agent; the log keeps
\* it when the channel is read
_sendCmd(s, cmd) ==
  IF s.sent = NotLogged THEN s ELSE [s EXCEPT !.sent = Append(@, cmd)]

\* exit()
exit(s) == _sendCmd(s, "EXIT")

\* an end of the chain that always tells the agent to exit
RenderFinished_exit(s) == exit(_sendCmd(s, "RENDER_FINISHED"))

\* The end of a chain of renders: RENDER_FINISHED, and EXIT if asked for.
RenderFinished(s) ==
  With(_sendCmd(s, "RENDER_FINISHED"), LAMBDA s1 :
    IF s1.toExitOnRenderFinished THEN exit(s1) ELSE s1)

\* The entries of the wait queue that were not invoked yet
QueuedWaits(s) == {s.waitFuncs[i] : i \in (s.waitPos + 1)..Len(s.waitFuncs)}

\* a start that keeps the wait queue of the render before
StartRender_keepQueue(s) ==
  With([s EXCEPT !.renderStage = 0,
                 !.rendered = << >>, !.loopDied = "",
                 !.hookLog = << >>, !.waitLog = << >>,
                 !.propLog = << >>, !.renderAcked = FALSE,
                 !.startWaits = Append(@, QueuedWaits(s))], LAMBDA s1 :
    IF ~s1.hasServer THEN CallRenderLoop(s1)
    ELSE _sendCmd([s1 EXCEPT !.readyOut = @ + 1], "READY"))

\* The start of an accepted render: the stage cursor and the wait queue are
\* reset, then the loop is entered or the agent told READY.
StartRender(s) ==
  With([s EXCEPT !.renderStage = 0, !.waitFuncs = << >>, !.waitPos = 0,
                 !.rendered = << >>, !.loopDied = "",
                 !.hookLog = << >>, !.waitLog = << >>,
                 !.propLog = << >>, !.renderAcked = FALSE,
                 !.startWaits = Append(@, QueuedWaits(s))], LAMBDA s1 :
    IF ~s1.hasServer THEN CallRenderLoop(s1)
    ELSE _sendCmd([s1 EXCEPT !.readyOut = @ + 1], "READY"))

\* a start that enters the loop also for a request of no frames
_internalRender_start(s, frameOpts) ==
  With(_calcRenderFrameOptions([s EXCEPT !.isRendering = TRUE], frameOpts.opts),
       LAMBDA s1 :
    IF s1.thrown # "" THEN s1 ELSE StartRender(s1))

RECURSIVE finishRender(_), _internalRender(_, _)

\* frameOpts is a request: [id, opts]
_internalRender(s, frameOpts) ==
  With(_calcRenderFrameOptions([s EXCEPT !.isRendering = TRUE], frameOpts.opts),
       LAMBDA s1 :
    IF s1.thrown # "" THEN s1
    ELSE IF ~s1.ret THEN finishRender(s1)
    ELSE StartRender(s1))

\* The first request of the queue leaves it and is started.
StartQueued(s) ==
  _internalRender([s EXCEPT !.queueRenders = Tail(@),
                            !.startLog = Append(@, s.queueRenders[1].id)],
                  s.queueRenders[1])

\* finishRender that rewinds the frame position
finishRender_rewind(s) ==
  IF ~s.isRendering THEN s
  ELSE With(ClearRenderTimer([EndRender(s) EXCEPT !.renderFramePos = 0]),
            LAMBDA s1 :
         IF Len(s1.queueRenders) > 0 THEN StartQueued(s1)
         ELSE RenderFinished(s1))

\* finishRender taking the newest request of the queue
finishRender_lifo(s) ==
  IF ~s.isRendering THEN s
  ELSE With(ClearRenderTimer(EndRender(s)), LAMBDA s1 :
         IF Len(s1.queueRenders) > 0
         THEN _internalRender(
                [s1 EXCEPT !.queueRenders = SubSeq(@, 1, Len(@) - 1),
                           !.startLog = Append(@, s1.queueRenders[Len(s1.queueRenders)].id)],
                s1.queueRenders[Len(s1.queueRenders)])
         ELSE RenderFinished(s1))

\* a finishRender that ends the render and leaves the queue alone
finishRender_stop(s) ==
  IF ~s.isRendering THEN s
  ELSE RenderFinished(ClearRenderTimer(EndRender(s)))

\* Aborts the rendering process; also the end of a render (stage 8).
finishRender(s) ==
  IF ~s.isRendering THEN s
  ELSE With(ClearRenderTimer(EndRender(s)), LAMBDA s1 :
         IF Len(s1.queueRenders) > 0 THEN StartQueued(s1)
         ELSE RenderFinished(s1))

\* No snapshot: the empty string getStoryToTeleport returns for an empty
\* render window.
NoSnapshot == [frames |-> << >>, renderPos |-> Undef, renderCount |-> Undef]

\* _teleporter._getStoryToTeleport: the snapshot of the story, as a value
\* tree: the animations of each scene, in the order of the scene list, and
\* the render window.
_getStoryToTeleport(s) ==
  [frames |-> [i \in 1..Len(s.scenes) |-> s.sceneFrames[s.scenes[i]]],
   renderPos |-> s.renderFramePos, renderCount |-> s.renderFrameCount]

\* _teleporter._fillFrameOpts of a story rebuilt from a snapshot: the render
\* window of the snapshot.
_fillFrameOpts(snapshot) ==
  [renderPos |-> snapshot.renderPos, renderCount |-> snapshot.renderCount,
   startScene |-> Undef, endScene |-> Undef]

\* _teleporter._rebuildStory, in the constructor of the receiving story s:
\* the scenes of the snapshot are added in their order, each with its
\* animations; the first of them is the current scene.
_rebuildStory(s, snapshot) ==
  With(Len(snapshot.frames), LAMBDA n :
    [s EXCEPT
       !.scenes = [i \in 1..n |-> i],
       !.curScene = IF n > 0 THEN 1 ELSE NoScene,
       !.sceneFrames = [sc \in SceneIds |->
                          IF sc <= n THEN snapshot.frames[sc] ELSE 0],
       !.storySceneIndex = [sc \in SceneIds |->
                              IF sc <= n THEN sc - 1 ELSE NewSceneIndex],
       !.storyFrameStart = [sc \in SceneIds |-> 0],
       !.frameCount = 0,
       !.frameCountChanged = (\E i \in 1..n : snapshot.frames[i] > 0),
       !.renderFramePos = 0, !.renderDir = 1, !.renderFrameEnd = 0,
       !.renderFrameCount = 0, !.renderStage = 0, !.isRendering = FALSE,
       !.renderTimer = NoTimer, !.queueRenders = << >>,
       !.waitFuncs = << >>, !.waitPos = 0, !.wkFlyovers = << >>,
       !.timers = {}, !.doneCbs = {}, !.readyOut = 0, !.renderOut = 0,
       !.stack = << >>, !.rendered = << >>, !.loopDied = "",
       !.hookLog = << >>, !.waitLog = << >>, !.propLog = << >>,
       !.isTeleporting = FALSE, !.teleportOut = NoSnapshot,
       !.thrown = "", !.ret = FALSE])

\* getStoryToTeleport(frameOpts): the snapshot, left in teleportOut
getStoryToTeleport(s, frameOpts) ==
  IF ~s.isTeleporting THEN Throw(s, "NotTeleporting")
  ELSE With(_calcRenderFrameOptions(s, frameOpts.opts), LAMBDA s1 :
         IF s1.thrown # "" THEN s1
         ELSE [s1 EXCEPT !.teleportOut = IF s1.ret THEN _getStoryToTeleport(s1)
                                         ELSE NoSnapshot])

\* teleport(frameOpts): the snapshot is sent as the value of TELEPORT
teleport(s, frameOpts) ==
  With(getStoryToTeleport(s, frameOpts), LAMBDA s1 :
    IF s1.thrown # "" THEN s1 ELSE _sendCmd(s1, "TELEPORT"))

\* a teleporting render() that does not tell the agent to exit
TeleportAndExit_stay(s, frameOpts) == teleport(s, frameOpts)

\* render() of a story that is teleporting to an agent: teleport and exit
TeleportAndExit(s, frameOpts) ==
  With(teleport(s, frameOpts), LAMBDA s1 :
    IF s1.thrown # "" THEN s1 ELSE exit(s1))

\* render() that starts the request at once, whatever is in flight
render_preempt(s, frameOpts) ==
  IF s.hasServer /\ s.isTeleporting THEN TeleportAndExit(s, frameOpts)
  ELSE _internalRender(s, frameOpts)

render(s, frameOpts) ==
  IF s.hasServer /\ s.isTeleporting THEN TeleportAndExit(s, frameOpts)
  ELSE IF s.isRendering
       THEN [s EXCEPT !.queueRenders = Append(@, frameOpts)]
  ELSE _internalRender(s, frameOpts)

\* ------------------------------------------------------------------------
\*                               Expression evaluator
\* ------------------------------------------------------------------------

\* The tokens of the expressions: a numeric literal and the parentheses.
Tokens == {"(", "5", ")"}

\* The computed values, as token sequences: "= (5" is << "(", "5" >>.
Exprs == UNION {[1..n -> Tokens] : n \in 1..MaxExprLen}

\* the expression "= 5"
LiteralExpr == << "5" >>

\* The error marker of evaluate, and the marker of an unresolved property;
\* neither is a value of an expression.
ExpressionError == -1
Unresolved == -2

ParseError == [err |-> TRUE, value |-> 0, rest |-> << >>]

\* Parses one operand at the head of toks: a literal or a parenthesized
\* sub-expression; `rest` is what follows it.
RECURSIVE ParseExpr(_)
ParseExpr(toks) ==
  IF toks = << >> THEN ParseError
  ELSE IF Head(toks) = "5"
  THEN [err |-> FALSE, value |-> 5, rest |-> Tail(toks)]
  ELSE IF Head(toks) = "("
  THEN With(ParseExpr(Tail(toks)), LAMBDA inner :
         IF inner.err \/ inner.rest = << >> THEN ParseError
         ELSE IF Head(inner.rest) # ")" THEN ParseError
         ELSE [inner EXCEPT !.rest = Tail(@)])
  ELSE ParseError

\* evaluate(expression, context) -> value | ErrorMarker
evaluate(expr) ==
  With(ParseExpr(expr), LAMBDA r :
    IF r.err \/ r.rest # << >> THEN ExpressionError ELSE r.value)

\* Property resolution that lets the evaluator's error through
resolveProperty_rethrow(s) ==
  With(evaluate(s.sceneExpr), LAMBDA v :
    IF v = ExpressionError THEN Throw(s, "ExpressionError")
    ELSE [s EXCEPT !.propLog = Append(@, [pos |-> s.renderFramePos,
                                          value |-> v])])

\* Property resolution, the caller of evaluate: an evaluation error is
\* caught and the property is unresolved for that frame.
resolveProperty(s) ==
  With(evaluate(s.sceneExpr), LAMBDA v :
    [s EXCEPT !.propLog =
       Append(@, [pos |-> s.renderFramePos,
                  value |-> IF v = ExpressionError THEN Unresolved ELSE v])])

\* scene._internalRenderFrame: the animated property is resolved for the
\* frame.
_internalRenderFrame(s) == resolveProperty(s)

\* scene.addAnimations with a computed value for the animated property
addExprAnimation(s, expr) ==
  With(_exceptIfRendering(s), LAMBDA s1 :
    IF s1.thrown # "" THEN s1 ELSE [s1 EXCEPT !.sceneExpr = expr])

\* ------------------------------------------------------------------------
\*                               Story: the render loop
\* ------------------------------------------------------------------------

Top(s) == s.stack[Len(s.stack)]
Pop(s) == [s EXCEPT !.stack = SubSeq(@, 1, Len(@) - 1)]
SetTop(s, stage, pc) ==
  [s EXCEPT !.stack[Len(s.stack)] = [@ EXCEPT !.stage = stage, !.pc = pc]]

\* window.setTimeout(..., waitTime), remembered in _renderTimer
SetRenderTimer(s) ==
  With(NewTimer(s), LAMBDA id :
    [s EXCEPT !.timers = @ \cup {id}, !.renderTimer = id])

\* The head of the wait queue is taken and called: the activation saves its
\* stage in the cursor and returns; the entry's onDone is outstanding.
CallWaitFunc(s, stage) ==
  With(Len(s.waitFuncs) = s.waitPos + 1, LAMBDA last :
    Pop([s EXCEPT !.renderStage = stage,
                  !.waitPos = IF last THEN 0 ELSE @ + 1,
                  !.waitFuncs = IF last THEN << >> ELSE @,
                  !.doneCbs = @ \cup {s.waitFuncs[s.waitPos + 1]},
                  !.waitLog = Append(@, s.waitFuncs[s.waitPos + 1])]))

\* a switch whose stage 1 goes on to stage 2
RenderStage_reserved(s, stage) ==
  CASE stage = 0 -> SetTop(s, 1, "run")
    [] stage = 1 -> _internalGotoFrame(SetTop(s, 2, "run"), s.renderFramePos)
    [] stage = 2 -> SetTop(s, 3, "run")
    [] stage = 3 ->
         [SetTop(s, 4, IF Len(s.wkFlyovers) > 0 THEN "user" ELSE "run") EXCEPT
            !.hookLog = @ \o [i \in 1..Len(s.wkFlyovers) |->
                                << "flyover", s.renderFramePos,
                                   s.wkFlyovers[i] >>]]
    [] stage = 4 ->
         [SetTop(s, 5, "user") EXCEPT
            !.hookLog = Append(@, << "before", s.renderFramePos >>)]
    [] stage = 5 ->
         IF s.curScene = NoScene THEN Throw(SetTop(s, 6, "run"), "TypeError")
         ELSE _internalRenderFrame(
                [SetTop(s, 6, "user") EXCEPT
                   !.rendered = Append(@, s.renderFramePos)])
    [] stage = 6 ->
         IF s.hasServer
         THEN Pop(SetRenderTimer([s EXCEPT !.renderStage = 7,
                                           !.renderAcked = FALSE]))
         ELSE [SetTop(s, 8, "user6") EXCEPT
                 !.hookLog = Append(@, << "after", s.renderFramePos >>)]
    [] stage = 7 ->
         [SetTop(s, 8, "user") EXCEPT
            !.hookLog = Append(@, << "after", s.renderFramePos >>)]
    [] stage = 8 ->
         IF s.renderFramePos # s.renderFrameEnd
         THEN [SetTop(s, 0, "user") EXCEPT !.renderFramePos = @ + s.renderDir]
         ELSE finishRender(Pop([s EXCEPT !.renderStage = -1]))
    [] OTHER -> s

\* The body of a stage (the `switch (stage)`).
RenderStage(s, stage) ==
  CASE stage = 0 -> SetTop(s, 1, "run")
    [] stage = 1 -> _internalGotoFrame(SetTop(s, 3, "run"), s.renderFramePos)
    [] stage = 3 ->
         [SetTop(s, 4, IF Len(s.wkFlyovers) > 0 THEN "user" ELSE "run") EXCEPT
            !.hookLog = @ \o [i \in 1..Len(s.wkFlyovers) |->
                                << "flyover", s.renderFramePos,
                                   s.wkFlyovers[i] >>]]
    [] stage = 4 ->
         [SetTop(s, 5, "user") EXCEPT
            !.hookLog = Append(@, << "before", s.renderFramePos >>)]
    [] stage = 5 ->
         IF s.curScene = NoScene THEN Throw(SetTop(s, 6, "run"), "TypeError")
         ELSE _internalRenderFrame(
                [SetTop(s, 6, "user") EXCEPT
                   !.rendered = Append(@, s.renderFramePos)])
    [] stage = 6 ->
         IF s.hasServer
         THEN Pop(SetRenderTimer([s EXCEPT !.renderStage = 7,
                                           !.renderAcked = FALSE]))
         ELSE [SetTop(s, 8, "user6") EXCEPT
                 !.hookLog = Append(@, << "after", s.renderFramePos >>)]
    [] stage = 7 ->
         [SetTop(s, 8, "user") EXCEPT
            !.hookLog = Append(@, << "after", s.renderFramePos >>)]
    [] stage = 8 ->
         IF s.renderFramePos # s.renderFrameEnd
         THEN [SetTop(s, 0, "user") EXCEPT !.renderFramePos = @ + s.renderDir]
         ELSE finishRender(Pop([s EXCEPT !.renderStage = -1]))
    \* no case of the switch: the loop spins without a change
    [] OTHER -> s

\* One turn of the `while (true)` of the innermost activation: the test of
\* _isRendering, then either the next wait function or the body of the
\* current stage.  pc "user": the user code the stage called (flyovers,
\* hook, scene tasks) is running; pc "user6": the after-frame hook of stage
\* 6 is running and the stage still has to set the frame timer.
_renderLoop(s) ==
  IF Top(s).pc = "user6"
  THEN Pop(SetRenderTimer([s EXCEPT !.renderStage = Top(s).stage]))
  ELSE IF ~s.isRendering THEN Pop(s)
  ELSE IF Top(s).stage # 0 /\ Len(s.waitFuncs) > s.waitPos
  THEN CallWaitFunc(s, Top(s).stage)
  ELSE RenderStage(s, Top(s).stage)

\* ------------------------------------------------------------------------
\*                               Actions
\* ------------------------------------------------------------------------

\* User code runs: from the event loop, or inside a callback of the
\* innermost activation.
UserCode ==
  /\ IF stack = << >> THEN TRUE
     ELSE stack[Len(stack)].pc \in {"user", "user6"} /\ nestNr < MaxReentrant
  /\ nestNr' = IF stack = << >> THEN nestNr ELSE nestNr + 1

\* The stack after an exception: it unwinds the activations until some user
\* code catches it, or all of them; at most `from` activations survive.
Unwind(t, from) ==
  IF t.thrown = "" THEN {t.stack}
  ELSE {SubSeq(t.stack, 1, k) : k \in 0..from}

\* A handler ends in state t; an exception unwinds the stack.
Finish(t, from) ==
  \E stk \in Unwind(t, from) :
    Commit([t EXCEPT !.stack = stk,
                     !.loopDied = IF Len(stk) < Len(stack) /\ t.thrown # ""
                                  THEN t.thrown ELSE @])

Called(op, t) ==
  lastCall' = [op |-> op, wasRendering |-> isRendering, thrown |-> t.thrown]

\* An API call made by user code, ending in state t.
Api(op, t) ==
  /\ UserCode
  /\ Finish(t, Len(t.stack))
  /\ Called(op, t)

NoCall == [op |-> "new", wasRendering |-> FALSE, thrown |-> ""]

\* The story as its constructor and the page's script leave it: the default
\* scenes of the page added (addDefaultScenes), the first of them the current
\* scene, the story params of the constructor's gotoScene, and then the
\* animations the script added to each scene (scene.addAnimations).
\* The story after construction; the channel of the agent is not read yet.
Constructed ==
  /\ hasServer \in BOOLEAN
  /\ isTeleporting \in BOOLEAN
  \* teleporting is read together with hasServer only (render, teleport)
  /\ isTeleporting => hasServer
  /\ \E n \in 0..MaxScenes :
       /\ scenes = [i \in 1..n |-> i]
       /\ curScene = IF n > 0 THEN 1 ELSE NoScene
       /\ storySceneIndex =
            [sc \in SceneIds |-> IF sc <= n THEN sc - 1 ELSE NewSceneIndex]
       /\ \E frames \in [1..n -> 0..MaxSceneFrames] :
            /\ sceneFrames = [sc \in SceneIds |-> IF sc <= n THEN frames[sc] ELSE 0]
            /\ frameCountChanged = (\E sc \in 1..n : frames[sc] > 0)
  /\ frameCount = 0
  /\ renderFramePos = 0
  /\ renderDir = 1
  /\ renderFrameEnd = 0
  /\ renderFrameCount = 0
  /\ renderStage = 0
  /\ isRendering = FALSE
  /\ renderTimer = NoTimer
  /\ queueRenders = << >>
  /\ waitFuncs = << >>
  /\ waitPos = 0
  /\ storyFrameStart = [sc \in SceneIds |-> 0]
  /\ timers = {}
  /\ doneCbs = {}
  /\ readyOut = 0
  /\ renderOut = 0
  /\ stack = << >>
  /\ callNr = 0
  /\ waitNr = 0
  /\ editNr = 0
  /\ nestNr = 0
  /\ lastCall = NoCall
  /\ enqLog = << >>
  /\ startLog = << >>
  /\ rendered = << >>
  /\ loopDied = ""
  /\ wkFlyovers = << >>
  /\ hookLog = << >>
  /\ waitLog = << >>
  /\ flyInits = << >>
  /\ argsVars = [name \in VarNames |-> NoVar]
  /\ sceneExpr = LiteralExpr
  /\ propLog = << >>
  /\ teleportOut = NoSnapshot
  /\ renderAcked = FALSE
  /\ startWaits = << >>
  /\ drainRegs = {}
  /\ taskParams = NoTaskParams
  /\ taskResult = "none"
  /\ sceneTransition = NoTransition
  /\ toExitOnRenderFinished = TRUE
  /\ chart = NoChart

\* A request made of an idle story begins a new chain: the log of messages
\* starts again.
NewChain(s) ==
  IF s.isRendering \/ s.sent = NotLogged THEN s ELSE [s EXCEPT !.sent = << >>]

\* the story after construction, its channel read by nobody
Init == Constructed /\ sent = NotLogged

\* the story after construction, its channel read by an agent or a log
InitLogged == Constructed /\ sent = << >>

\* story.render(playSpeedMs, frameOpts)
RenderCall(maxCalls, frameOpts) ==
  /\ callNr < maxCalls
  /\ Api("render", render(NewChain(St), [id |-> callNr + 1, opts |-> frameOpts]))
  /\ enqLog' = IF Len(queueRenders') > Len(queueRenders)
               THEN Append(enqLog, callNr + 1) ELSE enqLog
  /\ callNr' = callNr + 1
  /\ UNCHANGED << waitNr, editNr >>

Render(frameOpts) == RenderCall(MaxRenderCalls, frameOpts)

\* story.finishRender()
FinishRender ==
  /\ Api("finishRender", finishRender(St))
  /\ UNCHANGED << callNr, waitNr, editNr, enqLog >>

\* story.toExitOnRenderFinished = value
SetToExitOnRenderFinished(value) ==
  /\ Api("toExitOnRenderFinished", [St EXCEPT !.toExitOnRenderFinished = value])
  /\ UNCHANGED << callNr, waitNr, editNr, enqLog >>

\* story.addScene(sceneSelector)
AddSceneTo(maxScenes) ==
  /\ editNr < MaxEdits
  /\ Len(scenes) < maxScenes
  /\ \E sc \in SceneIds : ~InSeq(scenes, sc) /\ curScene # sc
  /\ Api("addScene", Collect(addScene(St)))
  /\ editNr' = editNr + 1
  /\ UNCHANGED << callNr, waitNr, enqLog >>

AddScene == AddSceneTo(MaxScenes)

\* scene.addAnimations(...)
AddAnimations(sc, n) ==
  /\ editNr < MaxEdits
  /\ InSeq(scenes, sc)
  /\ n > sceneFrames[sc]
  /\ Api("addAnimations", addAnimations(St, sc, n))
  /\ editNr' = editNr + 1
  /\ UNCHANGED << callNr, waitNr, enqLog >>

\* story.removeScene(scene)
RemoveScene(sc) ==
  /\ editNr < MaxEdits
  /\ InSeq(scenes, sc)
  /\ Api("removeScene", Collect(removeScene(St, sc)))
  /\ editNr' = editNr + 1
  /\ UNCHANGED << callNr, waitNr, enqLog >>

\* story.clear()
Clear ==
  /\ editNr < MaxEdits
  /\ Api("clear", Collect(clear(St)))
  /\ editNr' = editNr + 1
  /\ UNCHANGED << callNr, waitNr, enqLog >>

\* story.rewind()
Rewind ==
  /\ Api("rewind", Collect(rewind(St)))
  /\ UNCHANGED << callNr, waitNr, editNr, enqLog >>

\* story.gotoFrame(framePos)
GotoFrame(framePos) ==
  /\ Api("gotoFrame", Collect(gotoFrame(St, framePos)))
  /\ UNCHANGED << callNr, waitNr, editNr, enqLog >>

\* story.gotoScene(scene)
GotoScene(sc) ==
  /\ InSeq(scenes, sc)
  /\ Api("gotoScene", Collect(gotoScene(St, sc)))
  /\ UNCHANGED << callNr, waitNr, editNr, enqLog >>

\* A 'scene-transition' task is called at a stage.
SceneTransitionTask(params, stage) ==
  /\ Api("scene-transition", _SceneTransitionTask(St, params, stage))
  /\ UNCHANGED << callNr, waitNr, editNr, enqLog >>

\* The INIT stage of a 'chart' task initialises the data of its chart.
InitData(data) ==
  /\ chart = NoChart
  /\ Api("chart", _initData(St, data))
  /\ UNCHANGED << callNr, waitNr, editNr, enqLog >>

\* An 'add-vars' task runs its INIT stage.
AddVars(params) ==
  /\ Api("add-vars", _addVarsTask(St, params))
  /\ UNCHANGED << callNr, waitNr, editNr, enqLog >>

\* scene.addAnimations([{props: [{value: '=...'}]}]), by the script before
\* it renders
AddExprAnimation(expr) ==
  /\ callNr = 0
  /\ Api("addAnimations", addExprAnimation(St, expr))
  /\ UNCHANGED << callNr, waitNr, editNr, enqLog >>

\* story.teleport(frameOpts)
Teleport(frameOpts) ==
  /\ Api("teleport", teleport(NewChain(St), [id |-> 0, opts |-> frameOpts]))
  /\ UNCHANGED << callNr, waitNr, editNr, enqLog >>

\* story.getStoryToTeleport(frameOpts)
GetStoryToTeleport(frameOpts) ==
  /\ Api("getStoryToTeleport",
         getStoryToTeleport(St, [id |-> 0, opts |-> frameOpts]))
  /\ UNCHANGED << callNr, waitNr, editNr, enqLog >>

\* story.frameCount
FrameCount ==
  /\ Api("frameCount", get_frameCount(St))
  /\ UNCHANGED << callNr, waitNr, editNr, enqLog >>

\* story.addFlyover(handler, params), by the script or by a task
AddFlyover(adding) ==
  /\ Len(wkFlyovers) < MaxFlyovers
  /\ Api("addFlyover", addFlyover(St, Len(wkFlyovers) + 1, adding))
  /\ UNCHANGED << callNr, waitNr, editNr, enqLog >>

\* A drain of the wait queue is under way and its continuation is what
\* runs: an entry the render in flight invoked has not called its onDone,
\* and no activation of the loop is live (the caller is not a hook or a
\* task that a stage called).
Draining(s) ==
  /\ s.isRendering /\ s.stack = << >>
  /\ \E func \in s.doneCbs : InSeq(s.waitLog, func)

\* a registration that puts the entry in front of the queue
addWaitFunc_front(s, func) ==
  [s EXCEPT !.waitFuncs = SubSeq(@, 1, s.waitPos) \o << func >>
                            \o SubSeq(@, s.waitPos + 1, Len(@)),
            !.drainRegs = IF Draining(s) THEN @ \cup {func} ELSE @]

\* args.waitMan.addWaitFunc(func, params)
addWaitFunc(s, func) ==
  [s EXCEPT !.waitFuncs = Append(@, func),
            !.drainRegs = IF Draining(s) THEN @ \cup {func} ELSE @]

AddWaitFuncCall(maxCalls) ==
  /\ waitNr < maxCalls
  /\ Api("addWaitFunc", addWaitFunc(St, waitNr + 1))
  /\ waitNr' = waitNr + 1
  /\ UNCHANGED << callNr, editNr, enqLog >>

AddWaitFunc == AddWaitFuncCall(MaxWaitFuncs)

\* A wait function calls its onDone: () => { this._renderLoop(); }
WaitDone(func) ==
  /\ func \in doneCbs
  /\ UserCode
  /\ Commit(CallRenderLoopBy([St EXCEPT !.doneCbs = @ \ {func}],
                              ~InSeq(waitLog, func)))
  /\ UNCHANGED << callNr, waitNr, editNr, enqLog, lastCall >>

\* The frame timer of stage 6 fires.
TimerFire(id) ==
  /\ stack = << >>
  /\ id \in timers
  /\ Commit(IF ~hasServer THEN CallRenderLoop([St EXCEPT !.timers = @ \ {id}])
            ELSE _sendCmd([St EXCEPT !.timers = @ \ {id},
                                     !.renderOut = @ + 1], "RENDER"))
  /\ UNCHANGED << callNr, waitNr, editNr, nestNr, enqLog, lastCall >>

\* _internalGetServerMsg(MSG_SERVER_READY): the agent answers READY
ServerReady ==
  /\ stack = << >>
  /\ readyOut > 0
  /\ Commit(CallRenderLoop(
              _sendCmd(_sendCmd([St EXCEPT !.readyOut = @ - 1], "SET_FPS"),
                       "SET_FRAME_COUNT")))
  /\ UNCHANGED << callNr, waitNr, editNr, nestNr, enqLog, lastCall >>

\* _internalGetServerMsg(MSG_RENDER_DONE): the agent answers RENDER
RenderDone ==
  /\ stack = << >>
  /\ renderOut > 0
  /\ Commit(CallRenderLoop([St EXCEPT !.renderOut = @ - 1,
                                       !.renderAcked = TRUE]))
  /\ UNCHANGED << callNr, waitNr, editNr, nestNr, enqLog, lastCall >>

\* The innermost activation of _renderLoop takes its next turn.
LoopStep ==
  /\ stack # << >>
  /\ Finish(_renderLoop(St), Len(stack) - 1)
  /\ UNCHANGED << callNr, waitNr, editNr, nestNr, enqLog, lastCall >>

\* the requests that name no scene
PlainOpts ==
  {fo \in FrameOpts : fo.startScene = Undef /\ fo.endScene = Undef}

\* story.render() without frame options
DefaultOpts ==
  [renderPos |-> Undef, renderCount |-> Undef,
   startScene |-> Undef, endScene |-> Undef]

\* The render machine: render requests, abort, the wait queue, the timer
\* and the capture agent.
Next ==
  \/ \E frameOpts \in PlainOpts : Render(frameOpts)
  \/ FinishRender
  \/ AddWaitFunc
  \/ \E func \in 1..MaxWaitFuncs : WaitDone(func)
  \/ \E id \in 1..(MaxRenderCalls + MaxWaitFuncs + 2) : TimerFire(id)
  \/ ServerReady
  \/ RenderDone
  \/ LoopStep

Spec == Init /\ [][Next]_vars

\* The scene-list API on a story that may be rendering.
NextEdit ==
  \/ Render(DefaultOpts)
  \/ FinishRender
  \/ AddScene
  \/ \E sc \in SceneIds, n \in 1..MaxSceneFrames : AddAnimations(sc, n)
  \/ \E sc \in SceneIds : RemoveScene(sc)
  \/ Clear
  \/ Rewind
  \/ \E framePos \in (-1)..(MaxScenes * MaxSceneFrames) : GotoFrame(framePos)
  \/ \E sc \in SceneIds : GotoScene(sc)
  \/ \E id \in 1..(MaxRenderCalls + MaxWaitFuncs + 2) : TimerFire(id)
  \/ ServerReady
  \/ RenderDone
  \/ LoopStep

SpecEdit == Init /\ [][NextEdit]_vars

\* the requests from the start of the story
QueueOpts == {fo \in PlainOpts : fo.renderPos = Undef}

\* A script that calls render() several times in a row.
NextQueue ==
  \/ \E frameOpts \in QueueOpts : RenderCall(MaxQueueCalls, frameOpts)
  \/ FinishRender
  \/ \E id \in 1..(MaxQueueCalls + 2) : TimerFire(id)
  \/ ServerReady
  \/ RenderDone
  \/ LoopStep

SpecQueue == Init /\ [][NextQueue]_vars

\* Tasks and hooks that suspend the render with several wait entries.
NextWait ==
  \/ Render(DefaultOpts)
  \/ FinishRender
  \/ AddWaitFuncCall(MaxWaitEntries)
  \/ \E func \in 1..MaxWaitEntries : WaitDone(func)
  \/ \E id \in 1..(MaxRenderCalls + MaxWaitEntries + 2) : TimerFire(id)
  \/ ServerReady
  \/ RenderDone
  \/ LoopStep

SpecWait == Init /\ [][NextWait]_vars

\* The same machine with a longer wait queue: an entry can be registered
\* while one is running and another is queued.
NextDrain ==
  \/ Render(DefaultOpts)
  \/ FinishRender
  \/ AddWaitFuncCall(MaxDrainEntries)
  \/ \E func \in 1..MaxDrainEntries : WaitDone(func)
  \/ \E id \in 1..(MaxRenderCalls + MaxDrainEntries + 2) : TimerFire(id)
  \/ ServerReady
  \/ RenderDone
  \/ LoopStep

SpecDrain == Init /\ [][NextDrain]_vars

\* Flyovers registered before and during a render.
NextFly ==
  \/ Render(DefaultOpts)
  \/ FinishRender
  \/ \E adding \in BOOLEAN : AddFlyover(adding)
  \/ \E id \in 1..(MaxRenderCalls + 2) : TimerFire(id)
  \/ ServerReady
  \/ RenderDone
  \/ LoopStep

SpecFly == Init /\ [][NextFly]_vars

\* A script that only adds scenes and animations, and may render.
NextAdd ==
  \/ AddScene
  \/ \E sc \in SceneIds, n \in 1..MaxSceneFrames : AddAnimations(sc, n)
  \/ FrameCount
  \/ Render(DefaultOpts)
  \/ FinishRender
  \/ \E id \in 1..(MaxRenderCalls + 2) : TimerFire(id)
  \/ ServerReady
  \/ RenderDone
  \/ LoopStep

SpecAdd == Init /\ [][NextAdd]_vars

\* A script that edits the scene list of an idle story and moves over its
\* frames.
NextSeek ==
  \/ AddScene
  \/ \E sc \in SceneIds, n \in 1..MaxSceneFrames : AddAnimations(sc, n)
  \/ \E sc \in SceneIds : RemoveScene(sc)
  \/ Clear
  \/ FrameCount
  \/ Rewind
  \/ \E framePos \in (-1)..(MaxScenes * MaxSceneFrames) : GotoFrame(framePos)
  \/ \E sc \in SceneIds : GotoScene(sc)

SpecSeek == Init /\ [][NextSeek]_vars

\* Scripts that render, abort and choose if the agent is to exit at the end.
NextMsgs ==
  \/ \E frameOpts \in PlainOpts : Render(frameOpts)
  \/ FinishRender
  \/ \E value \in BOOLEAN : SetToExitOnRenderFinished(value)
  \/ \E id \in 1..(MaxRenderCalls + 2) : TimerFire(id)
  \/ ServerReady
  \/ RenderDone
  \/ LoopStep

SpecMsgs == InitLogged /\ [][NextMsgs]_vars

\* Scripts that render or take the snapshot of a story, teleporting or not.
NextCapture ==
  \/ \E frameOpts \in PlainOpts : Render(frameOpts)
  \/ \E frameOpts \in PlainOpts : GetStoryToTeleport(frameOpts)
  \/ FinishRender
  \/ \E id \in 1..(MaxRenderCalls + 2) : TimerFire(id)
  \/ ServerReady
  \/ RenderDone
  \/ LoopStep

SpecCapture == InitLogged /\ [][NextCapture]_vars

\* Scripts that edit and seek a story of up to MaxListScenes scenes.
NextScenes ==
  \/ AddSceneTo(MaxListScenes)
  \/ \E sc \in SceneIds, n \in 1..MaxSceneFrames : AddAnimations(sc, n)
  \/ \E sc \in SceneIds : RemoveScene(sc)
  \/ Clear
  \/ FrameCount
  \/ \E framePos \in (-1)..(MaxListScenes * MaxSceneFrames) : GotoFrame(framePos)
  \/ \E sc \in SceneIds : GotoScene(sc)

SpecScenes == Init /\ [][NextScenes]_vars

\* Scripts whose animations carry 'chart' tasks.
NextChart == \E data \in ChartData : InitData(data)

SpecChart == Init /\ [][NextChart]_vars

\* Scripts whose animations carry 'scene-transition' tasks.
NextTransition ==
  \E params \in TransitionParams, stage \in TaskStages :
    SceneTransitionTask(params, stage)

SpecTransition == Init /\ [][NextTransition]_vars

\* Scripts whose animations carry 'add-vars' tasks.
NextVars == \E params \in AddVarsParams : AddVars(params)

SpecVars == Init /\ [][NextVars]_vars

\* Stories whose animated property is a computed value, rendered without
\* interference.
NextExpr ==
  \/ \E expr \in Exprs : AddExprAnimation(expr)
  \/ \E frameOpts \in PlainOpts : Render(frameOpts)
  \/ \E id \in 1..(MaxRenderCalls + MaxWaitFuncs + 2) : TimerFire(id)
  \/ ServerReady
  \/ RenderDone
  \/ LoopStep

SpecExpr == Init /\ [][NextExpr]_vars

\* The scene-list API and the snapshot of a story that is not rendering.
NextTeleport ==
  \/ AddScene
  \/ \E sc \in SceneIds, n \in 1..MaxSceneFrames : AddAnimations(sc, n)
  \/ \E sc \in SceneIds : RemoveScene(sc)
  \/ Clear
  \/ FrameCount
  \/ \E frameOpts \in PlainOpts : Teleport(frameOpts)

SpecTeleport == Init /\ [][NextTeleport]_vars

\* Render requests that name scenes as well.
NextOpts ==
  \/ \E frameOpts \in FrameOpts : Render(frameOpts)
  \/ FinishRender
  \/ \E id \in 1..(MaxRenderCalls + 2) : TimerFire(id)
  \/ ServerReady
  \/ RenderDone
  \/ LoopStep

SpecOpts == Init /\ [][NextOpts]_vars

\* ------------------------------------------------------------------------
\*                               Properties
\* ------------------------------------------------------------------------

\* C1: a call of render() made while a render is in flight only appends the
\* request to the pending-render queue: renderFramePos, renderFrameEnd,
\* renderDir, the stage cursor, the wait queue and the rendering flag of the
\* render in flight are the same after the call.
C1_RenderInFlightOnlyQueues ==
  [][(callNr' # callNr /\ isRendering) =>
       /\ Len(queueRenders') = Len(queueRenders) + 1
       /\ SubSeq(queueRenders', 1, Len(queueRenders)) = queueRenders
       /\ queueRenders'[Len(queueRenders')].id = callNr'
       /\ UNCHANGED << renderFramePos, renderFrameEnd, renderDir, renderFrameCount,
                       renderStage, waitFuncs, waitPos, isRendering, rendered >>]_vars

\* a render() call was made during a render and its request is pending
C1_Witness ==
  /\ lastCall.op = "render" /\ lastCall.wasRendering /\ lastCall.thrown = ""
  /\ isRendering /\ renderStage > 0
  /\ Len(queueRenders) > 0
  /\ queueRenders[Len(queueRenders)].id = callNr

\* the ids of the pending requests, oldest first
QueuedIds == [i \in 1..Len(queueRenders) |-> queueRenders[i].id]

IsPrefix(a, b) == Len(a) <= Len(b) /\ SubSeq(b, 1, Len(a)) = a

\* the turn of the loop that completes the last frame of the window
LastFrameStep ==
  /\ LoopStep
  /\ isRendering
  /\ stack[Len(stack)].stage = 8 /\ stack[Len(stack)].pc # "user6"
  /\ renderFramePos = renderFrameEnd

\* C2: the requests queued during a render are started in the order of
\* their render() calls, none is dropped and none is started twice (the
\* queued requests are the started ones followed by the pending ones), and
\* a request is started only in the step in which the render before it
\* finishes: by an abort (finishRender) or by completing its last frame.
C2_QueuedRendersStartFifo ==
  /\ [](/\ enqLog = startLog \o QueuedIds
        /\ \A i, j \in 1..Len(startLog) : startLog[i] = startLog[j] => i = j)
  /\ [][startLog' # startLog =>
          /\ isRendering
          /\ IsPrefix(startLog, startLog')
          /\ FinishRender \/ LastFrameStep]_vars

\* two requests were queued and both were started, the second one after
\* the first had rendered its window
C2_Witness ==
  /\ startLog = << 2, 3 >>
  /\ enqLog = << 2, 3 >>
  /\ isRendering /\ Len(rendered) > 0

\* C3: a call of addScene made while isRendering is true fails with the
\* already-rendering error and leaves the scene list and the frame-count
\* dirty flag as they were.
C3_AddSceneFailsWhileRendering ==
  [][(lastCall'.op = "addScene" /\ editNr' # editNr /\ isRendering) =>
       /\ lastCall'.thrown = "AlreadyRendering"
       /\ UNCHANGED << scenes, frameCountChanged >>]_vars

\* the call ended with the already-rendering error and changed nothing
Rejected(t) ==
  /\ t.thrown = "AlreadyRendering"
  /\ [t EXCEPT !.thrown = ""] = St

\* C4: while the story is rendering, each of removeScene, clear, rewind,
\* gotoFrame and gotoScene to a scene other than the current one fails with
\* the already-rendering error and changes nothing: not the scene list, the
\* current scene, the frame count, renderFramePos, the stage cursor or the
\* wait queue.
C4_GuardedCallsFailWhileRendering ==
  isRendering =>
    /\ \A sc \in SceneIds : InSeq(scenes, sc) => Rejected(removeScene(St, sc))
    /\ Rejected(clear(St))
    /\ Rejected(rewind(St))
    /\ \A framePos \in (-1)..(MaxScenes * MaxSceneFrames) :
         Rejected(gotoFrame(St, framePos))
    /\ \A sc \in SceneIds :
         (InSeq(scenes, sc) /\ sc # curScene) => Rejected(gotoScene(St, sc))

\* a render is in flight and the last call, one of the guarded ones, failed
C4_Witness ==
  /\ isRendering /\ renderStage > 0
  /\ lastCall.op \in {"removeScene", "clear", "rewind", "gotoFrame", "gotoScene"}
  /\ lastCall.wasRendering
  /\ lastCall.thrown = "AlreadyRendering"
  /\ Len(scenes) > 1

\* C5: an accepted render performs the scene-render step for the
\* positions of its window [renderFramePos, renderFrameEnd], once each and
\* in increasing order, renderFrameCount frames in all; the loop is not
\* ended by an error before the window is complete, it reaches finished only
\* with the whole window rendered, and renderFramePos never exceeds
\* renderFrameEnd.
C5_WindowRenderedOnceInOrder ==
  /\ [](/\ \A i \in 1..Len(rendered) :
             rendered[i] = renderFrameEnd - renderFrameCount + i
        /\ Len(rendered) <= renderFrameCount
        /\ renderFramePos <= renderFrameEnd
        /\ loopDied # "TypeError")
  /\ [][(isRendering /\ ~isRendering' /\ LastFrameStep) =>
          Len(rendered) = renderFrameCount]_vars

\* C6: a render() call is accepted only with a window inside the timeline:
\* 0 <= renderFramePos and renderFrameEnd <= frameCount - 1.
C6_AcceptedWindowInsideTimeline ==
  [][(callNr' # callNr /\ ~isRendering /\ isRendering' /\ lastCall'.thrown = "") =>
       /\ 0 <= renderFramePos'
       /\ renderFrameEnd' <= frameCount' - 1]_vars

\* the failures of a rejected render request
RenderRejections ==
  {"ReverseNotSupported", "RenderPosOutOfScope", "RenderCountOutOfScope"}

\* C7: after a render() call that is rejected (render position or window out
\* of scope, or reverse direction) the story is idle and renderFramePos,
\* renderFrameEnd, renderDir and renderFrameCount have the values they had
\* before the call.
C7_RejectedRenderLeavesStoryIdle ==
  [][(callNr' # callNr /\ ~isRendering /\ lastCall'.thrown \in RenderRejections) =>
       /\ ~isRendering'
       /\ UNCHANGED << renderFramePos, renderFrameEnd, renderDir,
                       renderFrameCount >>]_vars

\* the scene handler names a scene of the story, or none
ValidScene(sceneIdx) == sceneIdx = Undef \/ sceneIdx < Len(scenes)

\* the requests with a negative frame count
ReverseOpts ==
  {fo \in FrameOpts : /\ fo.renderCount # Undef /\ fo.renderCount < 0
                      /\ ValidScene(fo.startScene) /\ ValidScene(fo.endScene)}

\* the request fails as not yet supported before anything of it is rendered:
\* no frame, no loop activation, no message to the agent
ReverseRejected(t) ==
  /\ t.thrown = "ReverseNotSupported"
  /\ t.renderDir = 1
  /\ t.rendered = rendered
  /\ Len(t.stack) = Len(stack)
  /\ t.readyOut = readyOut /\ t.renderOut = renderOut

RequestedPos(s, fo) ==
  parseTimeHandler(fo.renderPos, 0)
    + (IF fo.startScene = Undef THEN 0
       ELSE s.storyFrameStart[s.scenes[fo.startScene + 1]])

\* the end of the rest of the timeline: the last frame of the story, or of
\* endScene when one is given
RequestedEnd(s, fo) ==
  IF fo.endScene = Undef THEN s.frameCount - 1
  ELSE s.storyFrameStart[s.scenes[fo.endScene + 1]]
         + s.sceneFrames[s.scenes[fo.endScene + 1]] - 1

\* the request is accepted with the rest of the timeline as its window
RestOfTimeline(t, fo) ==
  /\ t.thrown = "" /\ t.ret
  /\ t.renderFrameEnd = RequestedEnd(t, fo)
  /\ t.renderFrameCount = t.renderFrameEnd - t.renderFramePos + 1

\* C9: for a request without renderCount whose start position lies in
\* [0, frameCount), with or without startScene, renderFrameEnd is
\* frameCount - 1, or the last frame of endScene when endScene is given,
\* and renderFrameCount is renderFrameEnd - renderFramePos + 1.
C9_DefaultCountIsRestOfTimeline ==
  \A fo \in FrameOpts :
    (/\ fo.renderCount = Undef
     /\ ValidScene(fo.startScene) /\ ValidScene(fo.endScene)
     /\ RequestedPos(_calcFrameCount(St), fo) < _calcFrameCount(St).frameCount
     /\ RequestedPos(_calcFrameCount(St), fo)
          <= RequestedEnd(_calcFrameCount(St), fo)) =>
      RestOfTimeline(_calcRenderFrameOptions(St, fo), fo)

C11_AbortedRenderRunsNoStage ==
  [][(LoopStep /\ (stack[Len(stack)].stale \/ ~isRendering)) =>
       UNCHANGED << renderFramePos, rendered, hookLog, waitLog >>]_vars

\* the wait entries of the queue that were not yet invoked
PendingWaits == {waitFuncs[i] : i \in (waitPos + 1)..Len(waitFuncs)}

\* C12: the wait queue is FIFO.  The entries invoked during a render are
\* invoked in the order of their addWaitFunc calls (the entries are numbered
\* in that order), the entry invoked is always the oldest one pending, and
\* it is invoked only when the completion callback of every entry invoked
\* before it in this render has been called.
C12_WaitQueueFifo ==
  /\ [](\A i, j \in 1..Len(waitLog) : i < j => waitLog[i] < waitLog[j])
  /\ [][Len(waitLog') > Len(waitLog) =>
          /\ \E func \in PendingWaits :
               /\ waitLog' = Append(waitLog, func)
               /\ \A other \in PendingWaits : func <= other
          /\ \A i \in 1..Len(waitLog) : waitLog[i] \notin doneCbs]_vars

\* a turn of the loop that executes the body of a stage: the story is
\* rendering, the turn is not the end of stage 6 after its hook, and it does
\* not invoke a wait entry
StageBodyStep ==
  /\ LoopStep
  /\ isRendering
  /\ stack[Len(stack)].pc # "user6"
  /\ waitLog' = waitLog

\* C13: the wait queue is drained before a stage runs: no stage body (0, 1,
\* 3, 4, 5, 6, 7, 8) is executed while the queue holds an entry that was not
\* yet invoked, or while an entry invoked in this render has not called its
\* completion callback.
C13_WaitQueueDrainedBeforeStage ==
  [][StageBodyStep =>
       /\ PendingWaits = {}
       /\ \A i \in 1..Len(waitLog) : waitLog[i] \notin doneCbs]_vars

\* An entry of the wait queue that the render in flight has invoked and whose
\* completion callback has not been called.
OutstandingWait(func) == InSeq(waitLog, func) /\ func \in doneCbs

\* C14: while a wait entry that was invoked stays without its completion
\* callback, and nobody aborts, the render stalls: no stage body runs, no
\* hook is delivered, renderFramePos and the stage cursor keep their values
\* and the render does not finish.
C14_OutstandingWaitStallsRender ==
  [][(/\ isRendering
      /\ \E func \in 1..MaxWaitEntries :
           OutstandingWait(func) /\ func \in doneCbs'
      /\ ~FinishRender) =>
       UNCHANGED << renderFramePos, renderStage, isRendering, rendered,
                    hookLog >>]_vars

\* How many times the render in flight delivered `hook` at frame `pos`.
HookCount(hook, pos) ==
  Cardinality({i \in 1..Len(hookLog) : hookLog[i] = << hook, pos >>})

\* The frame at the i-th rendered position is complete: stage 8 has left it
\* behind, or has ended the render there.
FrameCompleted(i) ==
  \/ isRendering /\ rendered[i] < renderFramePos
  \/ ~isRendering /\ renderStage = -1

\* C15: within one render onBeforeRenderFrame and onAfterRenderFrame are
\* delivered at most once per frame position, and exactly once for every
\* position whose frame is complete, with and without a capture agent.
C15_FrameHooksOncePerPosition ==
  /\ \A i \in 1..Len(hookLog) :
       hookLog[i][1] \in {"before", "after"} =>
         HookCount(hookLog[i][1], hookLog[i][2]) = 1
  /\ \A i \in 1..Len(rendered) :
       FrameCompleted(i) =>
         /\ HookCount("before", rendered[i]) = 1
         /\ HookCount("after", rendered[i]) = 1

\* The INIT calls the flyover received so far.
InitCount(fly) ==
  Cardinality({k \in 1..Len(flyInits) : flyInits[k].fly = fly})

\* The ANIME_LOOP calls the flyover received in this render at frame pos.
LoopCount(fly, pos) ==
  Cardinality({i \in 1..Len(hookLog) : hookLog[i] = << "flyover", pos, fly >>})

\* The flyover was registered while no render was in flight: before the
\* start of any render that is in flight now.
RegisteredIdle(fly) ==
  \E k \in 1..Len(flyInits) : flyInits[k].fly = fly /\ ~flyInits[k].rendering

\* C16: every registered flyover received INIT exactly once, and before any
\* of its ANIME_LOOP calls; in a render it receives ANIME_LOOP at most once
\* per frame position, once for every frame rendered if it was registered
\* before the render, and at strictly increasing frame positions.
C16_FlyoverInitThenLoopPerFrame ==
  /\ \A k \in 1..Len(wkFlyovers) : InitCount(wkFlyovers[k]) = 1
  /\ \A i \in 1..Len(hookLog) :
       hookLog[i][1] = "flyover" => InitCount(hookLog[i][3]) = 1
  /\ \A k \in 1..Len(wkFlyovers), i \in 1..Len(rendered) :
       /\ LoopCount(wkFlyovers[k], rendered[i]) <= 1
       /\ (isRendering /\ RegisteredIdle(wkFlyovers[k])) =>
            LoopCount(wkFlyovers[k], rendered[i]) = 1
  /\ \A i, j \in 1..Len(hookLog) :
       (/\ i < j
        /\ hookLog[i][1] = "flyover" /\ hookLog[j][1] = "flyover"
        /\ hookLog[i][3] = hookLog[j][3]) => hookLog[i][2] < hookLog[j][2]

\* Some pending timer fires; some invoked wait function calls its onDone.
AnyTimerFire ==
  \E id \in 1..(MaxRenderCalls + MaxWaitFuncs + 2) : TimerFire(id)

AnyWaitDone == \E func \in 1..MaxWaitFuncs : WaitDone(func)

\* The scheduling the claims about progress assume: the engine runs the
\* code of a live activation to its end (weak fairness of LoopStep, with
\* its enabling condition, a live activation, written out), every pending
\* timer fires, and every wait function that was invoked calls its onDone.
Fairness ==
  /\ ([]<>(stack = << >>)) \/ ([]<><<LoopStep>>_vars)
  /\ WF_vars(AnyTimerFire)
  /\ WF_vars(AnyWaitDone)

\* The render machine of a story that hears nothing from a capture agent.
NextLive ==
  \/ \E frameOpts \in PlainOpts : Render(frameOpts)
  \/ FinishRender
  \/ AddWaitFunc
  \/ \E func \in 1..MaxWaitFuncs : WaitDone(func)
  \/ \E id \in 1..(MaxRenderCalls + MaxWaitFuncs + 2) : TimerFire(id)
  \/ LoopStep

\* The story constructed without a capture agent.
InitNoAgent == Init /\ ~hasServer

SpecLive == InitNoAgent /\ [][NextLive]_vars /\ Fairness

\* A render() call made on an idle story was accepted and is in flight; no
\* API call was made since.
AcceptedRender ==
  /\ isRendering
  /\ lastCall.op = "render" /\ lastCall.thrown = "" /\ ~lastCall.wasRendering

\* C17: without a capture agent every accepted render finishes, given that
\* the timers fire and the wait functions call their completion callback:
\* the story becomes idle, or a queued request is started, which only the
\* end of the render in flight does.
C17_NoAgentRenderFinishes ==
  (~hasServer /\ AcceptedRender /\ startLog = << >>) ~>
    (~isRendering \/ startLog # << >>)

RECURSIVE TotalFrames(_)
\* The frame counts of the scenes at the positions idx of the scene list,
\* added up.
TotalFrames(idx) ==
  IF idx = {} THEN 0
  ELSE With(CHOOSE i \in idx : TRUE, LAMBDA i :
         sceneFrames[scenes[i]] + TotalFrames(idx \ {i}))

\* C18: after any sequence of scene additions the frameCount that the
\* getter returns, after its recomputation, is the sum of the frame counts
\* of the scenes.
C18_FrameCountIsSumAfterAdditions ==
  get_frameCount(St).ret = TotalFrames(1..Len(scenes))

\* the getter was called after a scene with frames was added to the list
C18_Witness ==
  /\ lastCall.op = "frameCount"
  /\ editNr >= 2
  /\ Len(scenes) = MaxScenes
  /\ ~frameCountChanged
  /\ frameCount = MaxScenes * MaxSceneFrames

\* C19: every addScene and removeScene call that changes the scene list
\* sets the dirty flag, and so after any sequence of such calls the
\* frameCount that the getter returns is the sum of the frame counts of the
\* scenes that are in the scene list.
C19_RemovalSetsDirtyFlag ==
  /\ [][(lastCall'.op \in {"addScene", "removeScene"} /\ scenes' # scenes) =>
          frameCountChanged']_vars
  /\ [](get_frameCount(St).ret = TotalFrames(1..Len(scenes)))

\* C20: gotoFrame(p) with p below 0 or not below frameCount fails with the
\* out-of-scope error and leaves the current scene, the scene list and
\* renderFramePos as they were before the call.
C20_GotoFrameOutOfScopeKeepsState ==
  [][\A framePos \in (-1)..(MaxScenes * MaxSceneFrames) :
       (/\ GotoFrame(framePos)
        /\ ~isRendering
        /\ (framePos < 0 \/ framePos >= get_frameCount(St).ret)) =>
          /\ lastCall'.thrown = "OutOfScope"
          /\ UNCHANGED << curScene, scenes, renderFramePos >>]_vars

\* a position past the last frame was asked of a story that has frames and
\* a current scene
C20_Witness ==
  /\ lastCall.op = "gotoFrame" /\ lastCall.thrown = "OutOfScope"
  /\ ~lastCall.wasRendering
  /\ frameCount > 0 /\ ~frameCountChanged
  /\ curScene # NoScene

\* The state a second call of a method starts from: the first call is over.
Again(t) == [t EXCEPT !.thrown = "", !.ret = FALSE]

\* C21: gotoFrame is idempotent: for every position p of [0, frameCount),
\* gotoFrame(p) called a second time ends as the first call did and leaves
\* the same current scene at the same local frame position.
C21_GotoFrameIdempotent ==
  \A p \in 0..(MaxScenes * MaxSceneFrames) :
    (~isRendering /\ p < get_frameCount(St).ret) =>
      With(gotoFrame(St, p), LAMBDA once :
        With(gotoFrame(Again(once), p), LAMBDA twice :
          /\ twice.thrown = once.thrown
          /\ twice.curScene = once.curScene
          /\ twice.curScene # NoScene =>
               LocalFramePos(twice, p) = LocalFramePos(once, p)
          /\ twice.scenes = once.scenes
          /\ twice.frameCount = once.frameCount))

\* gotoFrame has moved the story into its second scene
C21_Witness ==
  /\ lastCall.op = "gotoFrame" /\ lastCall.thrown = ""
  /\ Len(scenes) = 2 /\ curScene = scenes[2]
  /\ ~frameCountChanged /\ frameCount = 2
  /\ storyFrameStart[curScene] = 1

\* C22: clear() on an idle story succeeds, whatever scenes and frames the
\* story has, and leaves the scene list empty, frameCount 0, renderFramePos
\* 0 and no current scene; a second clear() succeeds as well.
C22_ClearAlwaysSucceeds ==
  ~isRendering =>
    With(clear(St), LAMBDA once :
      /\ once.thrown = ""
      /\ once.scenes = << >> /\ once.frameCount = 0
      /\ once.renderFramePos = 0 /\ once.curScene = NoScene
      /\ With(clear(Again(once)), LAMBDA twice :
           /\ twice.thrown = ""
           /\ twice.scenes = << >> /\ twice.frameCount = 0
           /\ twice.renderFramePos = 0 /\ twice.curScene = NoScene))

\* A value that was defined keeps what it held: a number stays that number;
\* an object stays an object and keeps its property when that was defined.
KeptVar(before, after) ==
  /\ (~before.obj /\ before.val # Undef) => after = before
  /\ before.obj =>
       /\ after.obj
       /\ before.x # Undef => after.x = before.x

\* C23: an add-vars task with overwrite = false leaves every variable of
\* args.vars that was defined at its previous value, for plain and dotted
\* names; only names that were undefined are assigned.
C23_AddVarsKeepsDefinedValues ==
  [][\A params \in AddVarsParams :
       (AddVars(params) /\ ~params.overwrite) =>
         \A name \in VarNames : KeptVar(argsVars[name], argsVars'[name])]_vars

\* The parentheses of expr are balanced: never more closed than opened, and
\* all closed at the end.
RECURSIVE ParenDepth(_, _)
ParenDepth(expr, n) ==
  IF n = 0 THEN 0
  ELSE ParenDepth(expr, n - 1)
         + (IF expr[n] = "(" THEN 1 ELSE IF expr[n] = ")" THEN -1 ELSE 0)

Unbalanced(expr) ==
  \/ ParenDepth(expr, Len(expr)) # 0
  \/ \E n \in 1..Len(expr) : ParenDepth(expr, n) < 0

\* A turn of the loop that scene-renders a frame whose property is a
\* malformed expression.
ContentErrorStep ==
  /\ LoopStep
  /\ Len(rendered') > Len(rendered)
  /\ Unbalanced(sceneExpr)

RECURSIVE RunRender(_, _)
RunRender(s, fuel) ==
  IF fuel = 0 \/ s.thrown # "" THEN s
  ELSE IF s.stack # << >> THEN RunRender(_renderLoop(s), fuel - 1)
  ELSE IF s.timers # {}
  THEN RunRender(CallRenderLoop([s EXCEPT !.timers = {}]), fuel - 1)
  ELSE s

\* The story s played frame by frame over the render window of the
\* snapshot, in the page, without a capture agent.
Played(s, snapshot) ==
  RunRender(_internalRender([s EXCEPT !.hasServer = FALSE,
                                      !.isTeleporting = FALSE],
                            [id |-> 0, opts |-> _fillFrameOpts(snapshot)]),
            MaxPlaySteps)

\* What a played story shows: its scenes in order with their frame counts,
\* the frame count of the story, and the before/after-frame hooks fired.
Shown(s) ==
  [frames |-> [i \in 1..Len(s.scenes) |-> s.sceneFrames[s.scenes[i]]],
   frameCount |-> get_frameCount(s).ret,
   hooks |-> SelectSeq(s.hookLog, LAMBDA e : e[1] \in {"before", "after"})]

\* story.teleport() has just sent a snapshot of the story.
Teleported ==
  /\ lastCall.op = "teleport" /\ lastCall.thrown = ""
  /\ teleportOut # NoSnapshot

\* C25: a story rebuilt from the teleport snapshot of a story, played frame
\* by frame, shows the same scene order, the same frame counts and the same
\* sequence of before/after-frame hooks as the story itself played.
C25_RebuiltStoryPlaysTheSame ==
  Teleported =>
    Shown(Played(_rebuildStory(St, teleportOut), teleportOut))
      = Shown(Played(St, teleportOut))

\* The innermost activation is about to execute a case of the switch: the
\* story is rendering, no wait entry is due, and the stage is one of the
\* stages 0..8.
StageExecuted ==
  /\ stack # << >>
  /\ isRendering
  /\ Top(St).pc # "user6"
  /\ ~(Top(St).stage # 0 /\ Len(waitFuncs) > waitPos)
  /\ Top(St).stage \in 0..8

\* The transitions of the stage cursor; -1 is `finished`.
StageTransitions ==
  {<< 0, 1 >>, << 1, 3 >>, << 3, 4 >>, << 4, 5 >>, << 5, 6 >>,
   << 7, 8 >>, << 8, 0 >>, << 8, -1 >>}
    \cup (IF hasServer THEN {<< 6, 7 >>} ELSE {<< 6, 8 >>})

\* The stage the activation that ran the turn goes on with in t: its own
\* `stage`, or the cursor it saved when it returned.
StageAfter(t) ==
  IF Len(t.stack) >= Len(stack) THEN t.stack[Len(stack)].stage
  ELSE t.renderStage

\* C26: the stage cursor follows only the transitions 0 -> 1 -> 3 -> 4 ->
\* 5 -> 6 -> (7 with a capture agent, 8 without) -> 8 -> (0 or finished):
\* stage 2 is never executed, stage 7 only with a capture agent, and without
\* one the after-frame hook fires at stage 6, which goes on to 8.
C26_StageCursorTransitions ==
  [][(LoopStep /\ StageExecuted) =>
       With(_renderLoop(St), LAMBDA t :
         /\ << Top(St).stage, StageAfter(t) >> \in StageTransitions
         /\ Top(St).stage # 2
         /\ Top(St).stage = 7 => hasServer
         /\ Top(St).stage = 6 =>
              t.hookLog = IF hasServer THEN hookLog
                          ELSE Append(hookLog, << "after", renderFramePos >>))]_vars

\* Without a capture agent stage 6 has fired the after-frame hook and the
\* activation goes on with stage 8.
C26_Witness ==
  /\ ~hasServer /\ isRendering
  /\ stack # << >> /\ Top(St).stage = 8 /\ Top(St).pc = "user6"
  /\ hookLog # << >> /\ hookLog[Len(hookLog)] = << "after", renderFramePos >>

\* C27: with a capture agent the loop suspends after stage 6: stage 7, which
\* fires the after-frame hook and is followed by the advance of
\* renderFramePos, is executed only once the agent's RENDER_DONE was
\* received, and an idle loop of a suspended frame fires no hook and keeps
\* the frame position.
C27_AgentFrameWaitsForRenderDone ==
  /\ [][(LoopStep /\ StageExecuted /\ Top(St).stage = 7) => renderAcked]_vars
  /\ [][(hasServer /\ isRendering /\ renderStage = 7 /\ stack = << >>
           /\ ~renderAcked /\ stack' = << >> /\ startLog' = startLog) =>
          (hookLog' = hookLog /\ renderFramePos' = renderFramePos)]_vars

\* the wait entries some accepted start found in the queue
LeftoverWaits == UNION {startWaits[i] : i \in 1..Len(startWaits)}

\* C28: every accepted start of a render, direct or taken off the queue of
\* pending requests, leaves the stage cursor at 0 and the wait queue empty
\* with its read position at 0, and no stage of the render has run yet; the
\* wait entries a start found in the queue are never invoked afterwards.
C28_StartResetsStageAndWaitQueue ==
  /\ [][Len(startWaits') > Len(startWaits) =>
          /\ renderStage' = 0 /\ waitFuncs' = << >> /\ waitPos' = 0
          /\ rendered' = << >> /\ hookLog' = << >> /\ waitLog' = << >>]_vars
  /\ [](\A i \in 1..Len(waitLog) : waitLog[i] \notin LeftoverWaits)
  /\ [](QueuedWaits(St) \cap LeftoverWaits = {})

\* A request taken off the queue was started while a wait entry of the
\* aborted render was still queued, and the new render has rendered a frame.
C28_Witness ==
  /\ startLog # << >>
  /\ startWaits # << >> /\ startWaits[Len(startWaits)] # {}
  /\ rendered # << >>

\* the entries registered during a drain that were not invoked yet
QueuedDrainRegs == QueuedWaits(St) \cap drainRegs

\* C29: a wait entry registered by a continuation of a drain is appended to
\* the queue and invoked in that drain: after every entry registered before
\* it, and before a stage body is executed or the frame position moves;
\* also when the entry that was running was the last of the queue.
C29_EntryRegisteredInDrainIsDrained ==
  /\ [][(LoopStep /\ StageExecuted) => QueuedDrainRegs = {}]_vars
  /\ [][QueuedDrainRegs # {} =>
          (renderFramePos' = renderFramePos \/ Len(startWaits') > Len(startWaits))]_vars
  /\ [][\A func \in drainRegs' \ drainRegs :
          /\ waitFuncs' = Append(waitFuncs, func)
          /\ func \in QueuedWaits(St)']_vars
  /\ [][\A func \in drainRegs :
          waitLog' = Append(waitLog, func) =>
            \A other \in QueuedWaits(St) : func <= other]_vars

\* The second entry was registered by the continuation of the first, which
\* was the last of the queue when it was invoked; it was invoked next, and
\* the frame was rendered after it.
C29_Witness ==
  /\ waitLog = << 1, 2 >> /\ 2 \in drainRegs /\ waitNr = 2
  /\ doneCbs = {} /\ rendered # << >>

C31_TransitionHandlerSerializable ==
  [][\A params \in TransitionParams :
       /\ (SceneTransitionTask(params, "TS_TELEPORT") /\ lastCall'.thrown = "") =>
            /\ taskResult' = "TR_EXIT"
            /\ taskParams'.handler.kind \notin {"number", "function"}
            /\ taskParams'.duration = params.duration
            /\ (params.handler.kind = "number"
                  /\ params.handler.val \in 0..MaxStdTransition) =>
                 taskParams'.handler = [kind |-> "string",
                                        val |-> params.handler.val]
            /\ params.handler.kind \in {"string", "undefined"} =>
                 taskParams'.handler = params.handler
       /\ (SceneTransitionTask(params, "TS_TELEPORT")
             /\ params.handler.kind = "function") =>
            lastCall'.thrown # ""
       /\ SceneTransitionTask(params, "TS_INIT") =>
            /\ lastCall'.thrown = ""
            /\ taskResult' = "TR_EXIT"
            /\ sceneTransition' = [handler |-> params.handler,
                                   duration |-> params.duration]]_vars

\* The TELEPORT stage was given the id of a standard transition and left
\* its name in params.
C31_Witness ==
  /\ lastCall.op = "scene-transition" /\ lastCall.thrown = ""
  /\ taskResult = "TR_EXIT"
  /\ taskParams.handler = [kind |-> "string", val |-> 0]
  /\ sceneTransition = NoTransition

\* C32: a completion callback of a wait entry that arrives after its render
\* was aborted drives no stage of the render the abort started.  After a
\* finishRender that ended a render and started the queued request, a turn
\* of the activation such a late callback makes renders nothing,
\* fires no hook, invokes no wait entry and leaves renderFramePos and the
\* stage cursor as they are.
C32_StaleResumptionDrivesNoRender ==
  [][(/\ LoopStep
      /\ lastCall.op = "finishRender" /\ lastCall.wasRendering
      /\ isRendering
      /\ stack[Len(stack)].stale /\ stack[Len(stack)].pc = "run") =>
       UNCHANGED << renderFramePos, renderStage, rendered, hookLog,
                    waitLog >>]_vars

\* C33: whenever the story is idle the queue of pending render requests is
\* empty: the chain of renders never stops with a request left un-started.
C33_IdleStoryHasEmptyQueue ==
  ~isRendering => queueRenders = << >>

\* The story is idle again after a chain in which two requests were queued
\* and both were taken off the queue.
C33_Witness ==
  /\ ~isRendering /\ stack = << >>
  /\ Len(enqLog) = 2 /\ startLog = enqLog
  /\ queueRenders = << >>

\* how often a message is in a log
Count(log, cmd) == Cardinality({i \in 1..Len(log) : log[i] = cmd})

\* the messages of the chain in progress
ChainLog == IF isRendering THEN sent ELSE << >>

\* a step that sends RENDER_FINISHED: a step of a chain in progress, or a
\* render() of an idle story
SendsRenderFinished ==
  /\ isRendering \/ callNr' > callNr
  /\ Count(sent', "RENDER_FINISHED") > Count(ChainLog, "RENDER_FINISHED")

\* C34: RENDER_FINISHED is sent once per chain of render requests.  While a
\* render is in flight the chain has sent none, and an idle story whose
\* chain began has sent exactly one; the step that sends it leaves the
\* story idle with the queue of pending requests empty, and
\* it sends EXIT right after it if and only if toExitOnRenderFinished is
\* set.  finishRender on an idle story sends nothing and changes nothing of
\* the render state.
C34_RenderFinishedOncePerChain ==
  /\ [](isRendering => Count(sent, "RENDER_FINISHED") = 0)
  /\ []((~isRendering /\ callNr > 0 /\ ~(hasServer /\ isTeleporting)) =>
          Count(sent, "RENDER_FINISHED") = 1)
  /\ [][SendsRenderFinished =>
          /\ ~isRendering'
          /\ queueRenders' = << >>
          /\ sent' = ChainLog \o (IF toExitOnRenderFinished
                                  THEN << "RENDER_FINISHED", "EXIT" >>
                                  ELSE << "RENDER_FINISHED" >>)]_vars
  /\ [][(FinishRender /\ ~isRendering) =>
          UNCHANGED << sent, isRendering, queueRenders, renderStage,
                       renderFramePos, renderFrameEnd, renderFrameCount,
                       renderDir, renderTimer, timers, waitFuncs, waitPos,
                       stack, curScene >>]_vars

\* A chain of two requests has ended with the flag cleared: RENDER_FINISHED
\* is the last message, sent once, and finishRender was then called on the
\* idle story.
C34_Witness ==
  /\ ~isRendering /\ ~toExitOnRenderFinished
  /\ Len(startLog) = 1
  /\ lastCall.op = "finishRender" /\ ~lastCall.wasRendering
  /\ Count(sent, "RENDER_FINISHED") = 1
  /\ sent[Len(sent)] = "RENDER_FINISHED"

\* the position of the last READY of a log, 0 if there is none
LastReady(log) ==
  IF \E i \in 1..Len(log) : log[i] = "READY"
  THEN CHOOSE i \in 1..Len(log) :
         log[i] = "READY" /\ \A j \in (i + 1)..Len(log) : log[j] # "READY"
  ELSE 0

\* the messages sent since the render in flight said READY
SinceReady(log) == SubSeq(log, LastReady(log) + 1, Len(log))

\* a turn of the loop that ends the render it drives (stage 8 at the end of
\* the window)
LoopEndsRender ==
  LoopStep /\ isRendering /\ (~isRendering' \/ startLog' # startLog)

\* C35: in capture-agent mode a started render says READY and runs no stage
\* before the agent has answered it (the answer sends SET_FPS): until then
\* nothing is rendered and no hook fires.  SET_FPS and SET_FRAME_COUNT, in
\* that order, come before the first RENDER; a RENDER is sent only when
\* every earlier RENDER has been answered with RENDER_DONE; and a render
\* that completes has sent exactly renderFrameCount RENDER messages.
C35_AgentHandshakeOrdersMessages ==
  /\ []((hasServer /\ isRendering /\ ~InSeq(SinceReady(sent), "SET_FPS")) =>
          (rendered = << >> /\ hookLog = << >>))
  /\ []((hasServer /\ isRendering /\ InSeq(SinceReady(sent), "RENDER")) =>
          (/\ SinceReady(sent)[1] = "SET_FPS"
           /\ SinceReady(sent)[2] = "SET_FRAME_COUNT"))
  /\ [][(hasServer /\ Count(sent', "RENDER") > Count(sent, "RENDER")) =>
          renderOut = 0]_vars
  /\ [][(hasServer /\ LoopEndsRender) =>
          Count(SinceReady(sent), "RENDER") = renderFrameCount]_vars

\* a call of render() on a story that teleports to a capture agent
TeleportingRender ==
  hasServer /\ isTeleporting /\ callNr' = callNr + 1

\* what such a call leaves alone: the story does not enter the rendering
\* state, no stage runs, no hook fires, nothing is queued
NothingRenders ==
  /\ ~isRendering /\ ~isRendering'
  /\ stack' = stack /\ timers' = timers
  /\ UNCHANGED << queueRenders, renderStage, rendered, hookLog, waitLog,
                  readyOut, renderOut >>

\* C36 as stated: with a capture agent and in teleporting mode every call
\* of render() sends one TELEPORT followed by EXIT and leaves the story
\* idle.
C36_TeleportingRenderAlwaysSends ==
  [][TeleportingRender =>
       (NothingRenders /\ sent' = << "TELEPORT", "EXIT" >>)]_vars

\* C36: with a capture agent and in teleporting mode a call of render()
\* that returns sends one TELEPORT followed by EXIT, and one that rejects
\* its frame options with an exception sends nothing; either way the story
\* stays idle: no stage runs, no hook fires and nothing is queued, and it
\* is idle in every state.  getStoryToTeleport throws when the story is not
\* in teleporting mode.
C36_TeleportingRenderOnlySends ==
  /\ []((hasServer /\ isTeleporting) => (~isRendering /\ stack = << >>))
  /\ [][TeleportingRender =>
          /\ NothingRenders
          /\ sent' = IF lastCall'.thrown = "" THEN << "TELEPORT", "EXIT" >>
                     ELSE << >>]_vars
  /\ [][\A frameOpts \in PlainOpts :
          (GetStoryToTeleport(frameOpts) /\ ~isTeleporting) =>
            (lastCall'.thrown = "NotTeleporting"
               /\ teleportOut' = teleportOut)]_vars

\* render() of a teleporting story with an agent has returned: TELEPORT
\* and EXIT are out and the story is idle.
C36_Witness ==
  /\ hasServer /\ isTeleporting
  /\ lastCall.op = "render" /\ lastCall.thrown = ""
  /\ sent = << "TELEPORT", "EXIT" >>
  /\ ~isRendering /\ queueRenders = << >>

\* the frame options compute a window of no frames in the current state
EmptyRequest(frameOpts) ==
  With(_calcRenderFrameOptions(St, frameOpts), LAMBDA t :
    t.thrown = "" /\ ~t.ret)

\* C37: a render request whose computed frame count is 0 renders no frame
\* and finishes at once.  render() of such a request on an idle story
\* returns with the story idle; when it is the first of the queue at the
\* end of a render, the step that starts it also starts the request behind
\* it, or leaves the story idle with an empty queue.  In both cases no
\* frame is rendered and no before-frame or after-frame hook fires in the
\* step.
C37_EmptyRequestFinishesAtOnce ==
  /\ [][\A frameOpts \in QueueOpts :
          (/\ RenderCall(MaxQueueCalls, frameOpts)
           /\ ~isRendering /\ ~(hasServer /\ isTeleporting)
           /\ EmptyRequest(frameOpts)) =>
            /\ lastCall'.thrown = ""
            /\ ~isRendering' /\ queueRenders' = << >>
            /\ stack' = stack
            /\ UNCHANGED << rendered, hookLog, readyOut >>]_vars
  /\ [][(/\ startLog' # startLog
         /\ EmptyRequest(queueRenders[1].opts)) =>
            /\ \/ Len(startLog') >= Len(startLog) + 2
               \/ ~isRendering' /\ queueRenders' = << >>
            /\ rendered' \in {rendered, << >>}
            /\ hookLog' \in {hookLog, << >>}]_vars

\* render({renderCount: 0}) of an idle story of one or more frames has
\* returned: the story is idle.
C37_Witness ==
  /\ lastCall = [op |-> "render", wasRendering |-> FALSE, thrown |-> ""]
  /\ ~(hasServer /\ isTeleporting)
  /\ frameCount > 0
  /\ ~isRendering /\ stack = << >> /\ timers = {}

\* a scene list without one of its scenes, the others in their order
Without(seq, sc) == SelectSeq(seq, LAMBDA o : o # sc)

\* C38: removeScene(s) on an idle story takes exactly the scene s out of
\* the scene list and keeps the other scenes in their order, also when the
\* position of s has changed since the frame count was last recomputed.
C38_RemoveSceneRemovesThatScene ==
  [][\A sc \in SceneIds :
       (RemoveScene(sc) /\ ~isRendering /\ lastCall'.thrown = "") =>
         scenes' = Without(scenes, sc)]_vars

\* C39: in every reachable state the current scene is undefined or a scene
\* of the scene list.
C39_CurrentSceneIsListed ==
  curScene = NoScene \/ InSeq(scenes, curScene)

\* the points of a data set
PointSet(data) ==
  UNION {{data[i][j] : j \in 1..Len(data[i])} : i \in 1..Len(data)}

\* C40: after _initData, max is the largest and min the smallest data point
\* over all series, for every data set that has a point, one whose points
\* are all negative included; data whose series differ in length is
\* rejected with an error.
C40_MinMaxAreDataExtremes ==
  /\ []((chart # NoChart /\ chart.seriesLen > 0) =>
          /\ chart.max \in PointSet(chart.data)
          /\ chart.min \in PointSet(chart.data)
          /\ \A p \in PointSet(chart.data) : chart.min <= p /\ p <= chart.max)
  /\ [][\A data \in ChartData :
          ((\E i \in 1..Len(data) : Len(data[i]) # Len(data[1]))
             /\ InitData(data)) =>
            (lastCall'.thrown # "" /\ chart' = chart)]_vars

====
